---------------------------- MODULE Spec2Model ----------------------------
(***************************************************************************)
(* Self-updating RAG service: the versioned document store (rag/db.py),    *)
(* the ingestion engine (rag/ingest.py), the vector index adapter          *)
(* (rag/index.py), the diff engine (rag/diffing.py) and the request        *)
(* handlers with the retrieval confidence gate (app.py).                   *)
(*                                                                         *)
(* Texts are sequences of one-character strings.  Scores are the cosine    *)
(* scores in hundredths (0.35 is 35).  Rows of the vector index are        *)
(* 0-based as in the code: row r is element r + 1 of a sequence.           *)
(***************************************************************************)
EXTENDS Integers, Sequences, FiniteSets, TLC

\* ------------------------------------------------------------------ bounds

\* Highest version number an ingest pass may create for one document.
MaxVersion == 3
\* add_vectors calls made on the vector index in the index specification.
MaxAdds == 2
\* logical_delete_chunk_ids calls made in the index specification.
MaxDeletes == 1

\* ----------------------------------------------------------- configuration

\* config.py: CHUNK_CHARS / CHUNK_OVERLAP_CHARS (environment settings, here a
\* small window so that a document of 11 characters has 5 chunks).
CHUNK_CHARS == 3
CHUNK_OVERLAP_CHARS == 1
\* config.py: TOP_K; app.py: the confidence gate's settings.
TOP_K == 8
MIN_RELEVANCE_SCORE == 35
SCORE_WINDOW == 8
MAX_CONTEXTS == 4
\* app.py: the length a citation's snippet is cut to.
SNIPPET_CHARS == 220

\* The mapping's sentinel for a logically deleted row (index.py).
TOMBSTONE == -1

\* LLM.answer's fixed reply (llm.py).
NOT_ENOUGH == "I don't have enough information in the indexed documents to answer that."

\* ------------------------------------------------------------------ inputs

NoFile == <<"no file">>

\* Five chunks: abc, cde, efg, ghi, ijk.
DocA == <<"a","b","c","d","e","f","g","h","i","j","k">>
\* DocA with the one character only chunk ordinal 2 covers replaced.
DocB == <<"a","b","c","d","e","X","g","h","i","j","k">>
\* A shorter document of three chunks, none of them DocA's: uvw, wxy, yzt.
DocU == <<"u","v","w","x","y","z","t">>
\* DocU cut short, its second chunk changed: uvw, wxY.
DocS == <<"u","v","w","x","Y">>
Paths == {"a.md", "b.txt"}

\* What requests write to a path: b.txt is a path nothing is written to.
ContentsOf(path) ==
    IF path = "a.md" THEN {DocA, DocB, DocU} ELSE {}

\* The corpus directory at start: empty.
InitialCorpora == {[p \in Paths |-> NoFile]}

Queries == {"q_gate", "q_cap", "q_low"}

Texts ==
    << <<"a","b","c">>, <<"c","d","e">>, <<"e","f","g">>, <<"g","h","i">>,
       <<"i","j","k">>, <<"e","X","g">>, <<"u","v","w">>, <<"w","x","y">>,
       <<"y","z","t">> >>

\* The cosine scores of each query against the vectors of Texts, in that order.
ScoreTable ==
    [q_gate |-> <<20, 19, 18, 17, 16, 15, 90, 83, 50>>,
     q_cap  |-> <<90, 89, 88, 87, 86, 85, 84, 40, 39>>,
     q_low  |-> <<34, 33, 32, 31, 30, 29, 28, 27, 26>>]

\* The score of a query against the vector of a chunk text: what the embedder
\* and the inner product give.
Score(q, text) ==
    IF \E k \in DOMAIN Texts : Texts[k] = text
    THEN ScoreTable[q][CHOOSE k \in DOMAIN Texts : Texts[k] = text]
    ELSE 0

\* ----------------------------------------------------------------- helpers

Min(a, b) == IF a < b THEN a ELSE b
Max(a, b) == IF a > b THEN a ELSE b

Range(s) == {s[i] : i \in DOMAIN s}

\* The permutations of a finite set, as sequences.
RECURSIVE Orders(_)
Orders(S) ==
    IF S = {} THEN {<<>>}
    ELSE UNION {{<<x>> \o t : t \in Orders(S \ {x})} : x \in S}

\* ------------------------------------------------------- rag/ingest.py

sha256_text(s) == <<"sha256", s>>

Whitespace == {" ", "\n", "\t"}

RECURSIVE lstrip(_)
lstrip(s) ==
    IF s # <<>> /\ Head(s) \in Whitespace THEN lstrip(Tail(s)) ELSE s

RECURSIVE rstrip(_)
rstrip(s) ==
    IF s # <<>> /\ s[Len(s)] \in Whitespace
    THEN rstrip(SubSeq(s, 1, Len(s) - 1)) ELSE s

strip(s) == rstrip(lstrip(s))

\* j = min(n, i + chunk_chars): the 0-based end of the window that starts at i.
window_end(n, i, chunk_chars) == Min(n, i + chunk_chars)

\* Variant of next_start that starts the next window at the end of this one.
next_start_no_overlap(j, overlap_chars) == j

\* i = max(0, j - overlap_chars): the start of the window after one ending at j.
next_start(j, overlap_chars) == Max(0, j - overlap_chars)

\* The while loop of chunk_text: i is the 0-based start of the next window.
RECURSIVE chunk_loop(_, _, _, _, _)
chunk_loop(text, chunk_chars, overlap_chars, i, out) ==
    LET n == Len(text)
        j == window_end(n, i, chunk_chars)
        out2 == Append(out, SubSeq(text, i + 1, j))
    IN IF ~(i < n) THEN out
       ELSE IF j = n THEN out2
       ELSE chunk_loop(text, chunk_chars, overlap_chars,
                       next_start(j, overlap_chars), out2)

chunk_text(raw, chunk_chars, overlap_chars) ==
    LET text == strip(raw)
    IN IF text = <<>> THEN <<>>
       ELSE chunk_loop(text, chunk_chars, overlap_chars, 0, <<>>)

\* ----------------------------------------------------------- rag/db.py

\* documents: a sequence of rows, doc_id the position (AUTOINCREMENT).
DocRow(path, doc_hash, version, max_version) ==
    [path |-> path, doc_hash |-> doc_hash, version |-> version,
     max_version |-> max_version]

\* The doc_id of the row with this path in a documents table, 0 when absent.
get_document_by_path(docs, path) ==
    IF \E d \in DOMAIN docs : docs[d].path = path
    THEN CHOOSE d \in DOMAIN docs : docs[d].path = path
    ELSE 0

\* Variant of upsert_document whose UPDATE leaves max_version as it is.
upsert_document_keeps_max(docs, path, doc_hash, version, max_version) ==
    LET d == get_document_by_path(docs, path)
    IN IF d = 0
       THEN Append(docs, DocRow(path, doc_hash, version, max_version))
       ELSE [docs EXCEPT ![d] = DocRow(path, doc_hash, version, docs[d].max_version)]

upsert_document(docs, path, doc_hash, version, max_version) ==
    LET existing == get_document_by_path(docs, path)
    IN IF existing # 0
       THEN [docs EXCEPT ![existing] = DocRow(path, doc_hash, version, max_version)]
       ELSE Append(docs, DocRow(path, doc_hash, version, max_version))

\* Variant of set_active_version that inserts a row for an unknown path.
set_active_version_upserting(docs, path, version) ==
    IF \E d \in DOMAIN docs : docs[d].path = path
    THEN [d \in DOMAIN docs |->
            IF docs[d].path = path THEN [docs[d] EXCEPT !.version = version]
            ELSE docs[d]]
    ELSE Append(docs, [path |-> path, doc_hash |-> <<>>, version |-> version,
                       max_version |-> version])

\* Variant of set_active_version that also lowers max_version to the version.
set_active_version_truncating(docs, path, version) ==
    [d \in DOMAIN docs |->
        IF docs[d].path = path
        THEN [docs[d] EXCEPT !.version = version, !.max_version = version]
        ELSE docs[d]]

\* UPDATE ... WHERE path=?: no row changes when the path is unknown.
set_active_version(docs, path, version) ==
    [d \in DOMAIN docs |->
        IF docs[d].path = path THEN [docs[d] EXCEPT !.version = version]
        ELSE docs[d]]

\* chunks: a sequence of rows, chunk_id the position (AUTOINCREMENT).
ChunkRow(doc_id, chunk_index, chunk_hash, text, version) ==
    [doc_id |-> doc_id, chunk_index |-> chunk_index, chunk_hash |-> chunk_hash,
     text |-> text, version |-> version]

\* Variant of insert_chunk that also moves the older rows of the ordinal to
\* the new version.
insert_chunk_moving(cks, doc_id, chunk_index, chunk_hash, text, version) ==
    Append([c \in DOMAIN cks |->
                IF cks[c].doc_id = doc_id /\ cks[c].chunk_index = chunk_index
                THEN [cks[c] EXCEPT !.version = version] ELSE cks[c]],
           ChunkRow(doc_id, chunk_index, chunk_hash, text, version))

insert_chunk(cks, doc_id, chunk_index, chunk_hash, text, version) ==
    Append(cks, ChunkRow(doc_id, chunk_index, chunk_hash, text, version))

\* The chunk ids of a document, over all its versions.
list_chunks_for_doc(cks, doc_id) ==
    {c \in DOMAIN cks : cks[c].doc_id = doc_id}

\* The chunk ids of one version of a document.
list_chunks_for_doc_version(cks, doc_id, version) ==
    {c \in DOMAIN cks : cks[c].doc_id = doc_id /\ cks[c].version = version}

\* vectors: chunk_id -> vector_row, INSERT OR REPLACE.
set_vector_row(vecs, chunk_id, vector_row) ==
    [c \in DOMAIN vecs \cup {chunk_id} |->
        IF c = chunk_id THEN vector_row ELSE vecs[c]]

\* Variant of max_v_of that takes the active version for the upper bound.
active_v_of(doc_row) == doc_row.version

\* int(doc.max_version or doc.version)
max_v_of(doc_row) ==
    IF doc_row.max_version # 0 THEN doc_row.max_version ELSE doc_row.version

\* --------------------------------------------------------- rag/embedder.py

\* The embedding of a text: a function of the text alone.
Vec(text) == [of |-> text]

embed_texts(texts) == [i \in DOMAIN texts |-> Vec(texts[i])]

\* ------------------------------------------------------------ rag/index.py

\* Variant of add_vectors that marks the rows added before as deleted.
add_vectors_replacing(faiss, r2c, vecs, chunk_ids) ==
    LET start == Len(r2c)
    IN [faiss |-> faiss \o vecs,
        row_to_chunk |-> [k \in 1 .. start |-> TOMBSTONE] \o chunk_ids,
        rows |-> [i \in DOMAIN chunk_ids |-> start + i - 1]]

\* add_vectors: the new backend index, the new mapping and the rows returned.
add_vectors(faiss, r2c, vecs, chunk_ids) ==
    LET start == Len(r2c)
    IN [faiss |-> faiss \o vecs,
        row_to_chunk |-> r2c \o chunk_ids,
        rows |-> [i \in DOMAIN chunk_ids |-> start + i - 1]]

\* The order the backend returns rows in: by descending score (sc: row ->
\* score); which of two rows of equal score comes first is the backend's
\* choice, here the lower row throughout (low_first) or the higher throughout.
RECURSIVE ScoreOrder(_, _, _)
ScoreOrder(sc, rows, low_first) ==
    IF rows = {} THEN <<>>
    ELSE LET r == CHOOSE x \in rows : \A y \in rows :
                    \/ sc[x] > sc[y]
                    \/ sc[x] = sc[y] /\ (IF low_first THEN x <= y ELSE x >= y)
         IN <<r>> \o ScoreOrder(sc, rows \ {r}, low_first)

ScoreOrders(fx, q) ==
    LET sc == [r \in 0 .. (Len(fx) - 1) |-> Score(q, fx[r + 1].of)]
    IN {ScoreOrder(sc, DOMAIN sc, low_first) : low_first \in BOOLEAN}

\* The loop of search over the rows the backend returned: a row whose mapping is
\* the sentinel is skipped.
RECURSIVE search_rows(_, _, _, _)
search_rows(fx, r2c, q, rows) ==
    IF rows = <<>> THEN <<>>
    ELSE LET row == Head(rows)
             cid == r2c[row + 1]
             rest == search_rows(fx, r2c, q, Tail(rows))
         IN IF cid = TOMBSTONE THEN rest
            ELSE <<[chunk_id |-> cid, score |-> Score(q, fx[row + 1].of)]>> \o rest

\* search: the hit lists (chunk_id, score) it can return for a query.
search(fx, r2c, q, top_k) ==
    IF Len(fx) = 0 THEN {<<>>}
    ELSE {search_rows(fx, r2c, q, SubSeq(order, 1, Min(top_k, Len(order)))) :
            order \in ScoreOrders(fx, q)}

\* logical_delete_chunk_ids: the mapping with the rows of these chunks set to
\* the sentinel.
\* Variant of logical_delete_chunk_ids that drops the entries of the mapping.
logical_delete_compacting(r2c, deleted_chunk_ids) ==
    SelectSeq(r2c, LAMBDA cid : cid \notin deleted_chunk_ids)

logical_delete_chunk_ids(r2c, deleted_chunk_ids) ==
    [i \in DOMAIN r2c |-> IF r2c[i] \in deleted_chunk_ids THEN TOMBSTONE ELSE r2c[i]]

\* -------------------------------------------------------------- rag/llm.py

\* LLM.answer with the local provider: the fixed reply when there is no context
\* or no text in the contexts, else an extract of the best context's text.
llm_answer(q, contexts) ==
    IF contexts = <<>> THEN NOT_ENOUGH
    ELSE IF \A i \in 1 .. Min(4, Len(contexts)) : strip(contexts[i].text) = <<>>
         THEN NOT_ENOUGH
    ELSE IF strip(contexts[1].text) = <<>> THEN NOT_ENOUGH
    ELSE <<"extract", q, strip(contexts[1].text)>>

\* ---------------------------------------------------------- rag/diffing.py

\* str.splitlines on "\n".
RECURSIVE splitlines_from(_, _, _)
splitlines_from(s, k, line) ==
    IF k > Len(s) THEN (IF line = <<>> THEN <<>> ELSE <<line>>)
    ELSE IF s[k] = "\n" THEN <<line>> \o splitlines_from(s, k + 1, <<>>)
    ELSE splitlines_from(s, k + 1, Append(line, s[k]))

splitlines(s) == splitlines_from(s, 1, <<>>)

\* _unified: empty when the two texts have the same lines, else the diff of
\* the two line lists under the two names.
unified(a, b, from_name, to_name) ==
    IF splitlines(a) = splitlines(b) THEN <<>>
    ELSE <<"---", from_name, "+++", to_name, splitlines(a), splitlines(b)>>

\* _chunks_by_index: chunk_index -> text of one version; of rows with the same
\* chunk_index the dict keeps one.
chunks_by_index(cks, doc_id, version) ==
    LET ids == list_chunks_for_doc_version(cks, doc_id, version)
        idxs == {cks[c].chunk_index : c \in ids}
    IN [i \in idxs |-> cks[CHOOSE c \in ids : cks[c].chunk_index = i].text]

\* Variant of sorted that lists the ordinals in descending order.
RECURSIVE sorted_descending(_)
sorted_descending(S) ==
    IF S = {} THEN <<>>
    ELSE LET m == CHOOSE x \in S : \A y \in S : x >= y
         IN <<m>> \o sorted_descending(S \ {m})

\* The ordinals of a set in ascending order.
RECURSIVE sorted(_)
sorted(S) ==
    IF S = {} THEN <<>>
    ELSE LET m == CHOOSE x \in S : \A y \in S : x <= y
         IN <<m>> \o sorted(S \ {m})

\* Variant of chunk_status that compares a missing "to" chunk as empty text.
chunk_status_no_removed(a, b, idx) ==
    IF idx \notin DOMAIN a THEN "added"
    ELSE IF idx \in DOMAIN b /\ a[idx] = b[idx] THEN "unchanged"
    ELSE "changed"

chunk_status(a, b, idx) ==
    IF idx \notin DOMAIN a THEN "added"
    ELSE IF idx \notin DOMAIN b THEN "removed"
    ELSE IF a[idx] = b[idx] THEN "unchanged"
    ELSE "changed"

diff_doc_versions(docs, cks, path, from_version, to_version) ==
    LET doc == get_document_by_path(docs, path)
        a == chunks_by_index(cks, doc, from_version)
        b == chunks_by_index(cks, doc, to_version)
        all_idx == sorted(DOMAIN a \cup DOMAIN b)
        a_txt(idx) == IF idx \in DOMAIN a THEN a[idx] ELSE <<>>
        b_txt(idx) == IF idx \in DOMAIN b THEN b[idx] ELSE <<>>
        diff_str(idx) ==
            IF chunk_status(a, b, idx) # "unchanged"
            THEN unified(a_txt(idx), b_txt(idx),
                         <<path, from_version, idx>>, <<path, to_version, idx>>)
            ELSE <<>>
        per_chunk == [k \in DOMAIN all_idx |->
            [chunk_index |-> all_idx[k],
             status |-> chunk_status(a, b, all_idx[k]),
             from_len |-> Len(a_txt(all_idx[k])),
             to_len |-> Len(b_txt(all_idx[k])),
             diff |-> diff_str(all_idx[k])]]
        count(status) == Cardinality({k \in DOMAIN per_chunk : per_chunk[k].status = status})
        parts == SelectSeq(per_chunk, LAMBDA e : e.status # "unchanged")
    IN IF doc = 0 THEN [error |-> "Document not found"]
       ELSE [path |-> path, from_version |-> from_version, to_version |-> to_version,
             summary |-> [added |-> count("added"), changed |-> count("changed"),
                          removed |-> count("removed"), unchanged |-> count("unchanged"),
                          total |-> Len(all_idx)],
             per_chunk |-> per_chunk,
             combined_diff |-> [k \in DOMAIN parts |-> parts[k].diff]]

\* ------------------------------------------------------------------ app.py

\* The loop of chat over the hits: a hit whose chunk or document is missing, or
\* whose chunk is not of the document's active version, is skipped.
\* Variant of active_version_hit that accepts a chunk of any version.
any_version_hit(docs, cks, hit) ==
    /\ hit.chunk_id \in DOMAIN cks
    /\ cks[hit.chunk_id].doc_id \in DOMAIN docs

active_version_hit(docs, cks, hit) ==
    /\ hit.chunk_id \in DOMAIN cks
    /\ cks[hit.chunk_id].doc_id \in DOMAIN docs
    /\ cks[hit.chunk_id].version = docs[cks[hit.chunk_id].doc_id].version

context_of(docs, cks, hit) ==
    [source_path |-> docs[cks[hit.chunk_id].doc_id].path,
     chunk_id |-> hit.chunk_id, score |-> hit.score,
     text |-> cks[hit.chunk_id].text]

RECURSIVE candidate_contexts(_, _, _)
candidate_contexts(docs, cks, hits) ==
    IF hits = <<>> THEN <<>>
    ELSE LET rest == candidate_contexts(docs, cks, Tail(hits))
         IN IF active_version_hit(docs, cks, Head(hits))
            THEN <<context_of(docs, cks, Head(hits))>> \o rest
            ELSE rest

\* contexts.sort(key=score, reverse=True): stable, equal scores keep their order.
RECURSIVE insert_by_score(_, _)
insert_by_score(sorted_ctx, c) ==
    IF sorted_ctx = <<>> THEN <<c>>
    ELSE IF Head(sorted_ctx).score >= c.score
         THEN <<Head(sorted_ctx)>> \o insert_by_score(Tail(sorted_ctx), c)
         ELSE <<c>> \o sorted_ctx

RECURSIVE sort_by_score(_)
sort_by_score(contexts) ==
    IF contexts = <<>> THEN <<>>
    ELSE insert_by_score(sort_by_score(SubSeq(contexts, 1, Len(contexts) - 1)),
                         contexts[Len(contexts)])

\* The retrieval confidence gate, on the contexts sorted by score.
\* Variant of confidence_gate with the absolute floor only (no window).
confidence_gate_floor_only(contexts) ==
    IF contexts = <<>> \/ contexts[1].score < MIN_RELEVANCE_SCORE THEN <<>>
    ELSE LET kept == SelectSeq(contexts, LAMBDA c : c.score >= MIN_RELEVANCE_SCORE)
         IN SubSeq(kept, 1, Min(MAX_CONTEXTS, Len(kept)))

\* Variant of confidence_gate with the window only (no absolute floor).
confidence_gate_window_only(contexts) ==
    IF contexts = <<>> THEN <<>>
    ELSE LET best == contexts[1].score
             threshold == best - SCORE_WINDOW
             kept == SelectSeq(contexts, LAMBDA c : c.score >= threshold)
         IN SubSeq(kept, 1, Min(MAX_CONTEXTS, Len(kept)))

\* Variant of confidence_gate without the cap on the number of contexts.
confidence_gate_uncapped(contexts) ==
    IF contexts = <<>> \/ contexts[1].score < MIN_RELEVANCE_SCORE THEN <<>>
    ELSE LET best == contexts[1].score
             threshold == Max(MIN_RELEVANCE_SCORE, best - SCORE_WINDOW)
         IN SelectSeq(contexts, LAMBDA c : c.score >= threshold)

confidence_gate(contexts) ==
    IF contexts = <<>> \/ contexts[1].score < MIN_RELEVANCE_SCORE THEN <<>>
    ELSE LET best == contexts[1].score
             threshold == Max(MIN_RELEVANCE_SCORE, best - SCORE_WINDOW)
             kept == SelectSeq(contexts, LAMBDA c : c.score >= threshold)
         IN SubSeq(kept, 1, Min(MAX_CONTEXTS, Len(kept)))

\* The snippet of a citation: the text stripped, newlines replaced by blanks,
\* cut to SNIPPET_CHARS characters and an ellipsis.
snippet_of(text) ==
    LET s == [k \in DOMAIN strip(text) |->
                IF strip(text)[k] = "\n" THEN " " ELSE strip(text)[k]]
    IN IF Len(s) > SNIPPET_CHARS THEN Append(SubSeq(s, 1, SNIPPET_CHARS), "...") ELSE s

citation_of(c) ==
    [source_path |-> c.source_path, chunk_id |-> c.chunk_id, score |-> c.score,
     snippet |-> snippet_of(c.text)]

\* ------------------------------------------------- rag/ingest.py: ingest_docs

VARIABLES
    files,          \* the corpus directory: path -> raw text, or NoFile
    documents,      \* table documents
    chunks,         \* table chunks
    vectors,        \* table vectors: chunk_id -> vector_row
    faiss,          \* the backend index: the vectors in row order
    row_to_chunk,   \* VectorIndex.row_to_chunk
    splits,         \* history: path -> the chunk lists ingested, by version
    resp,           \* what the last request returned
    passes,         \* the ingest passes in flight: worker thread -> position and locals
    rollback_req,   \* the rollback request in flight: position and locals
    index_files,    \* index.faiss and index_map.json on disk
    add_calls,      \* the add_vectors calls in flight: caller -> position and locals
    index_log,      \* history of the index: ids issued, calls returned, ids deleted
    chunk_call      \* the chunk_text call followed step by step: position and locals

\* The positions of the threads and the files of the index.
pvars == <<passes, rollback_req, index_files, add_calls, index_log, chunk_call>>

vars == <<files, documents, chunks, vectors, faiss, row_to_chunk, splits, resp,
          passes, rollback_req, index_files, add_calls, index_log, chunk_call>>

EmptySummary ==
    [docs_scanned |-> 0, docs_changed |-> 0, docs_unchanged |-> 0,
     chunks_added |-> 0, chunks_updated |-> 0, chunks_deactivated |-> 0,
     embed_calls |-> 0]

\* existing_chunks = {c.chunk_index: c for c in db.list_chunks_for_doc(doc_id)}:
\* the rows of every version of the document, ordered by chunk_index alone.  The
\* dict keeps the last row of each ordinal, and the order of rows of equal
\* chunk_index is SQLite's choice: here by ascending chunk_id throughout (the
\* dict keeps the newest row of each ordinal) or descending throughout (the
\* oldest).  The set of the dicts that can result.
existing_chunks_of(cks, doc_id) ==
    LET ids == list_chunks_for_doc(cks, doc_id)
        idxs == {cks[c].chunk_index : c \in ids}
        at(i) == {c \in ids : cks[c].chunk_index = i}
    IN {[i \in idxs |->
            CHOOSE c \in at(i) :
                \A c2 \in at(i) : IF ascending THEN c >= c2 ELSE c <= c2] :
        ascending \in BOOLEAN}

\* if doc_row and doc_row.doc_hash == doc_hash
\* Variant of doc_unchanged that also wants the newest version to be active.
doc_unchanged_if_newest_active(existing_docs, path, doc_hash) ==
    LET d == get_document_by_path(existing_docs, path)
    IN /\ d # 0
       /\ existing_docs[d].doc_hash = doc_hash
       /\ existing_docs[d].version = existing_docs[d].max_version

doc_unchanged(existing_docs, path, doc_hash) ==
    LET d == get_document_by_path(existing_docs, path)
    IN d # 0 /\ existing_docs[d].doc_hash = doc_hash

\* new_max = 1 if not doc_row else int(doc_row.max_version or doc_row.version) + 1
\* Variant of new_max_of that counts from the active version.
new_max_of_active(existing_docs, path) ==
    LET d == get_document_by_path(existing_docs, path)
    IN IF d = 0 THEN 1 ELSE existing_docs[d].version + 1

new_max_of(existing_docs, path) ==
    LET d == get_document_by_path(existing_docs, path)
    IN IF d = 0 THEN 1 ELSE max_v_of(existing_docs[d]) + 1

\* if idx in existing_chunks and existing_chunks[idx].chunk_hash == h: continue
chunk_unchanged(cks, existing_chunks, idx, h) ==
    idx \in DOMAIN existing_chunks /\ cks[existing_chunks[idx]].chunk_hash = h

\* The loop "for idx, (txt, h) in enumerate(zip(chunks, new_hashes))", from
\* ordinal idx on.  acc: the chunks table, the embedding batch, the deleted
\* ids and the two counters so far.
RECURSIVE updates_additions(_, _, _, _, _, _)
updates_additions(acc, new_chunks, existing_chunks, doc_id, active_version, idx) ==
    IF idx >= Len(new_chunks) THEN acc
    ELSE
      LET txt == new_chunks[idx + 1]
          h == sha256_text(txt)
          cks2 == insert_chunk(acc.chunks, doc_id, idx, h, txt, active_version)
          cid == Len(cks2)
          acc2 ==
            IF chunk_unchanged(acc.chunks, existing_chunks, idx, h) THEN acc
            ELSE [acc EXCEPT
                    !.deleted_chunk_ids =
                        IF idx \in DOMAIN existing_chunks
                        THEN @ \cup {existing_chunks[idx]} ELSE @,
                    !.chunks_updated =
                        IF idx \in DOMAIN existing_chunks THEN @ + 1 ELSE @,
                    !.chunks_added =
                        IF idx \in DOMAIN existing_chunks THEN @ ELSE @ + 1,
                    !.chunks = cks2,
                    !.to_embed_texts = Append(@, txt),
                    !.to_embed_chunk_ids = Append(@, cid)]
      IN updates_additions(acc2, new_chunks, existing_chunks, doc_id,
                           active_version, idx + 1)

\* The body of the loop over the files for one changed file, with the
\* existing_chunks dict the store returned.
ingest_changed(st, existing_docs, path, raw, existing_chunks) ==
    LET doc_hash == sha256_text(raw)
        new_max == new_max_of(existing_docs, path)
        active_version == new_max
        docs2 == upsert_document(st.documents, path, doc_hash, active_version, new_max)
        doc_id == get_document_by_path(docs2, path)
        new_chunks == chunk_text(raw, CHUNK_CHARS, CHUNK_OVERLAP_CHARS)
        new_indices == 0 .. (Len(new_chunks) - 1)
        acc0 == [chunks |-> st.chunks, to_embed_texts |-> <<>>,
                 to_embed_chunk_ids |-> <<>>, deleted_chunk_ids |-> {},
                 chunks_updated |-> 0, chunks_added |-> 0]
        acc == updates_additions(acc0, new_chunks, existing_chunks, doc_id,
                                 active_version, 0)
        \* deletions (doc got shorter)
        deleted_chunk_ids ==
            acc.deleted_chunk_ids \cup
            {existing_chunks[i] : i \in DOMAIN existing_chunks \ new_indices}
        embed == acc.to_embed_texts # <<>>
        added == add_vectors(st.faiss, st.row_to_chunk,
                             embed_texts(acc.to_embed_texts), acc.to_embed_chunk_ids)
        RECURSIVE record_rows(_, _)
        record_rows(vecs, k) ==
            IF k > Len(acc.to_embed_chunk_ids) THEN vecs
            ELSE record_rows(set_vector_row(vecs, acc.to_embed_chunk_ids[k],
                                            added.rows[k]), k + 1)
    IN [documents |-> docs2,
        chunks |-> acc.chunks,
        vectors |-> IF embed THEN record_rows(st.vectors, 1) ELSE st.vectors,
        faiss |-> IF embed THEN added.faiss ELSE st.faiss,
        row_to_chunk |-> IF embed THEN added.row_to_chunk ELSE st.row_to_chunk,
        splits |-> [st.splits EXCEPT ![path] = Append(@, new_chunks)],
        summary |-> [st.summary EXCEPT
            !.docs_scanned = @ + 1,
            !.docs_changed = @ + 1,
            !.chunks_added = @ + acc.chunks_added,
            !.chunks_updated = @ + acc.chunks_updated,
            !.chunks_deactivated = @ + Cardinality(deleted_chunk_ids),
            !.embed_calls = IF embed THEN @ + 1 ELSE @],
        log |-> Append(st.log,
            [path |-> path, changed |-> TRUE, version |-> active_version,
             doc_row |-> LET d == get_document_by_path(existing_docs, path)
                         IN IF d = 0 THEN <<>> ELSE existing_docs[d],
             new_chunks |-> new_chunks,
             to_embed_texts |-> acc.to_embed_texts,
             to_embed_chunk_ids |-> acc.to_embed_chunk_ids,
             rows |-> IF embed THEN added.rows ELSE <<>>,
             embed_calls |-> IF embed THEN 1 ELSE 0,
             chunks_added |-> acc.chunks_added,
             chunks_updated |-> acc.chunks_updated,
             chunks_deactivated |-> Cardinality(deleted_chunk_ids)])]

\* The body of the loop over the files for one file: the states it can leave.
ingest_file(st, existing_docs, path, raw) ==
    IF doc_unchanged(existing_docs, path, sha256_text(raw))
    THEN {[st EXCEPT
            !.summary = [@ EXCEPT !.docs_scanned = @ + 1,
                                  !.docs_unchanged = @ + 1],
            !.log = Append(@, [path |-> path, changed |-> FALSE])]}
    ELSE
      LET new_max == new_max_of(existing_docs, path)
          docs2 == upsert_document(st.documents, path, sha256_text(raw),
                                   new_max, new_max)
          doc_id == get_document_by_path(docs2, path)
      IN {ingest_changed(st, existing_docs, path, raw, ec) :
            ec \in existing_chunks_of(st.chunks, doc_id)}

\* for root, _, files in os.walk(docs_dir): the files in the order given.
RECURSIVE ingest_walk(_, _, _, _)
ingest_walk(st, existing_docs, fs, order) ==
    IF order = <<>> THEN {st}
    ELSE UNION {ingest_walk(s2, existing_docs, fs, Tail(order)) :
                  s2 \in ingest_file(st, existing_docs, Head(order), fs[Head(order)])}

\* ingest_docs: the states and summaries one pass over the corpus can leave;
\* os.walk lists the files in an order of the file system's.
ingest_docs(docs, cks, vecs, fx, r2c, sp, fs) ==
    LET st0 == [documents |-> docs, chunks |-> cks, vectors |-> vecs,
                faiss |-> fx, row_to_chunk |-> r2c, splits |-> sp,
                summary |-> EmptySummary, log |-> <<>>]
        \* existing_docs = {d.path: d for d in db.list_documents()}
        existing_docs == docs
    IN UNION {ingest_walk(st0, existing_docs, fs, order) :
                order \in Orders({p \in Paths : fs[p] # NoFile})}

\* The threads of the server's pool that run ingest passes.
Workers == {1, 2}

\* The callers of add_vectors in the index specification.
Callers == {1, 2}

\* The locals of ingest_docs between two files of the walk.
NoDocLocals ==
    [path |-> "", doc_id |-> 0, active_version |-> 0, new_chunks |-> <<>>,
     existing_chunks |-> <<>>, idx |-> 0, to_embed_texts |-> <<>>,
     to_embed_chunk_ids |-> <<>>, deleted_chunk_ids |-> {}]

\* A worker thread that runs no ingest pass.
IdlePass ==
    [pc |-> "idle", existing_docs |-> <<>>, todo |-> <<>>,
     summary |-> EmptySummary, cur |-> NoDocLocals]

\* A caller that is not inside add_vectors.
IdleCall == [pc |-> "idle", start |-> 0, vecs |-> <<>>, chunk_ids |-> <<>>]

\* Neither index.faiss nor index_map.json exists.
NoIndexFiles ==
    [index_exists |-> FALSE, index |-> <<>>, map_exists |-> FALSE, map |-> <<>>]

\* Variant of saved_files that writes the backend index and leaves the mapping
\* file as it was.
saved_files_index_only(fx, r2c) ==
    [index_files EXCEPT !.index_exists = TRUE, !.index = fx]

\* save(): both files written.
saved_files(fx, r2c) ==
    [index_exists |-> TRUE, index |-> fx, map_exists |-> TRUE, map |-> r2c]

\* _load_or_create: the index and the mapping in memory after construction.
load_or_create(disk) ==
    IF disk.index_exists /\ disk.map_exists
    THEN [faiss |-> disk.index, row_to_chunk |-> disk.map]
    ELSE [faiss |-> <<>>, row_to_chunk |-> <<>>]

\* No chunk_text call is being followed.
IdleChunk ==
    [pc |-> "idle", raw |-> <<>>, text |-> <<>>, chunk_chars |-> 0,
     overlap_chars |-> 0, i |-> 0, out |-> <<>>, starts |-> <<>>]

\* No request is in flight and the index was never saved.
InitThreads ==
    /\ passes = [w \in Workers |-> IdlePass]
    /\ rollback_req = [pc |-> "idle"]
    /\ index_files = NoIndexFiles
    /\ add_calls = [c \in Callers |-> IdleCall]
    /\ index_log = [issued |-> 0, adds |-> 0, deletes |-> 0, returned |-> {},
                    tombstoned |-> {}]
    /\ chunk_call = IdleChunk

Init ==
    /\ InitThreads
    /\ files \in InitialCorpora
    /\ documents = <<>>
    /\ chunks = <<>>
    /\ vectors = <<>>
    /\ faiss = <<>>
    /\ row_to_chunk = <<>>
    /\ splits = [p \in Paths |-> <<>>]
    /\ resp = [op |-> "init"]

\* POST /documents/content (documents_update) and /documents/upload: a file of
\* the corpus is written.
documents_update(path, content) ==
    /\ files' = [files EXCEPT ![path] = content]
    /\ resp' = [op |-> "update", ok |-> TRUE, path |-> path]
    /\ UNCHANGED <<documents, chunks, vectors, faiss, row_to_chunk, splits>>
    /\ UNCHANGED pvars

\* POST /documents/ingest
documents_ingest ==
    \E st \in ingest_docs(documents, chunks, vectors, faiss, row_to_chunk,
                          splits, files) :
        /\ \A d \in DOMAIN st.documents : st.documents[d].max_version <= MaxVersion
        /\ documents' = st.documents
        /\ chunks' = st.chunks
        /\ vectors' = st.vectors
        /\ faiss' = st.faiss
        /\ row_to_chunk' = st.row_to_chunk
        /\ splits' = st.splits
        /\ resp' = [op |-> "ingest", summary |-> st.summary, log |-> st.log]
        /\ index_files' = IF st.faiss = faiss THEN index_files
                          ELSE saved_files(st.faiss, st.row_to_chunk)
        /\ UNCHANGED <<files, passes, rollback_req, add_calls, index_log, chunk_call>>

\* POST /documents/rollback
documents_rollback(path, version) ==
    LET doc == get_document_by_path(documents, path)
    IN /\ UNCHANGED <<files, chunks, vectors, faiss, row_to_chunk, splits>>
       /\ UNCHANGED pvars
       /\ IF doc = 0
          THEN /\ resp' = [op |-> "rollback", status |-> 404]
               /\ UNCHANGED documents
          ELSE IF version < 1 \/ version > max_v_of(documents[doc])
          THEN /\ resp' = [op |-> "rollback", status |-> 400,
                           max_version |-> max_v_of(documents[doc])]
               /\ UNCHANGED documents
          ELSE /\ documents' = set_active_version(documents, path, version)
               /\ resp' = [op |-> "rollback", status |-> 200, path |-> path,
                           active_version |-> documents'[doc].version,
                           max_version |-> max_v_of(documents'[doc])]

\* GET /documents/diff
documents_diff(path, from_version, to_version) ==
    LET doc == get_document_by_path(documents, path)
    IN /\ UNCHANGED <<files, documents, chunks, vectors, faiss, row_to_chunk, splits>>
       /\ UNCHANGED pvars
       /\ resp' =
            IF doc = 0
            THEN [op |-> "diff", status |-> 404]
            ELSE IF \E v \in {from_version, to_version} :
                        v < 1 \/ v > max_v_of(documents[doc])
            THEN [op |-> "diff", status |-> 400,
                  max_version |-> max_v_of(documents[doc])]
            ELSE [op |-> "diff", status |-> 200,
                  report |-> diff_doc_versions(documents, chunks, path,
                                               from_version, to_version)]

\* POST /chat
chat(q) ==
    \E hits \in search(faiss, row_to_chunk, q, TOP_K) :
        LET candidates == candidate_contexts(documents, chunks, hits)
            contexts == confidence_gate(sort_by_score(candidates))
            citations == [k \in DOMAIN contexts |-> citation_of(contexts[k])]
        IN /\ resp' = [op |-> "chat", query |-> q, hits |-> hits,
                       candidates |-> candidates, contexts |-> contexts,
                       citations |-> citations,
                       answer |-> llm_answer(q, contexts)]
           /\ UNCHANGED <<files, documents, chunks, vectors, faiss, row_to_chunk, splits>>
           /\ UNCHANGED pvars

Next ==
    \/ \E p \in Paths : \E c \in ContentsOf(p) : documents_update(p, c)
    \/ documents_ingest
    \/ \E p \in Paths : \E v \in 0 .. (MaxVersion + 1) : documents_rollback(p, v)
    \/ \E p \in Paths : \E a, b \in 1 .. MaxVersion : documents_diff(p, a, b)
    \/ \E q \in Queries : chat(q)

Spec == Init /\ [][Next]_vars

\* ------------------------------------- ingest_docs and rollback, step by step
\*
\* The endpoints are plain "def" handlers, which the server runs on the threads
\* of a pool, all on the one DB connection and the one VectorIndex.  Every DB
\* method commits before it returns, so a thread can be overtaken between any
\* two of them.  splits belongs to the passes of Spec and is left alone here.

\* What requests write to a path in the step-by-step specifications.
StepContents == {DocU, DocS}

\* The first ordinal from idx on whose chunk the loop does not "continue" over,
\* or Len(new_chunks) when there is none.
next_insert(cks, cur) ==
    LET todo == {i \in cur.idx .. (Len(cur.new_chunks) - 1) :
                    ~chunk_unchanged(cks, cur.existing_chunks, i,
                                     sha256_text(cur.new_chunks[i + 1]))}
    IN IF todo = {} THEN Len(cur.new_chunks)
       ELSE CHOOSE i \in todo : \A j \in todo : i <= j

\* The response to a request whose handler raised.
Failed(op, error, path) ==
    [op |-> op, status |-> 500, error |-> error, path |-> path]

\* ingest_docs, lines 34-50: the summary, the cache of the documents table and
\* the listing of the corpus directory.
ingest_begin(w) ==
    /\ passes[w].pc = "idle"
    /\ \E order \in Orders({p \in Paths : files[p] # NoFile}) :
        passes' = [passes EXCEPT ![w] =
            [pc |-> "walk", existing_docs |-> documents, todo |-> order,
             summary |-> EmptySummary, cur |-> NoDocLocals]]
    /\ UNCHANGED <<files, documents, chunks, vectors, faiss, row_to_chunk,
                   splits, resp, rollback_req, index_files, add_calls, index_log,
                   chunk_call>>

\* ingest_docs, lines 59-81, for the next file of the walk: count it, read it,
\* compare its hash with the cached row; for a changed file write the document
\* row and read the rows of its chunks.  readable: whether open() succeeds.
ingest_scan(w, readable) ==
    LET pass == passes[w]
        path == Head(pass.todo)
        raw == files[path]
        doc_hash == sha256_text(raw)
        new_max == new_max_of(pass.existing_docs, path)
        docs2 == upsert_document(documents, path, doc_hash, new_max, new_max)
        doc_id == get_document_by_path(docs2, path)
        scanned == [pass.summary EXCEPT !.docs_scanned = @ + 1]
    IN /\ pass.pc = "walk"
       /\ pass.todo # <<>>
       /\ UNCHANGED <<files, chunks, vectors, faiss, row_to_chunk, splits,
                      rollback_req, index_files, add_calls, index_log, chunk_call>>
       /\ IF ~readable
          THEN \* read_text raises: nothing catches it, the request fails
               /\ passes' = [passes EXCEPT ![w] = IdlePass]
               /\ resp' = Failed("ingest_failed", "read", path)
               /\ UNCHANGED documents
          ELSE IF doc_unchanged(pass.existing_docs, path, doc_hash)
          THEN /\ passes' = [passes EXCEPT ![w] =
                    [pass EXCEPT !.todo = Tail(@),
                                 !.summary = [scanned EXCEPT !.docs_unchanged = @ + 1]]]
               /\ UNCHANGED <<documents, resp>>
          ELSE /\ new_max <= MaxVersion
               /\ documents' = docs2
               /\ \E ec \in existing_chunks_of(chunks, doc_id) :
                    passes' = [passes EXCEPT ![w] =
                        [pass EXCEPT
                            !.pc = "chunks",
                            !.summary = scanned,
                            !.cur = [NoDocLocals EXCEPT
                                !.path = path,
                                !.doc_id = doc_id,
                                !.active_version = new_max,
                                !.new_chunks = chunk_text(raw, CHUNK_CHARS,
                                                          CHUNK_OVERLAP_CHARS),
                                !.existing_chunks = ec]]]
               /\ UNCHANGED resp

\* ingest_docs, lines 84-95: the loop up to and including the next insert_chunk.
ingest_insert(w) ==
    LET pass == passes[w]
        cur == pass.cur
        idx == next_insert(chunks, cur)
        txt == cur.new_chunks[idx + 1]
        known == idx \in DOMAIN cur.existing_chunks
        cks2 == insert_chunk(chunks, cur.doc_id, idx, sha256_text(txt), txt,
                             cur.active_version)
        cid == Len(cks2)
    IN /\ pass.pc = "chunks"
       /\ idx < Len(cur.new_chunks)
       /\ chunks' = cks2
       /\ passes' = [passes EXCEPT ![w] =
            [pass EXCEPT
                !.summary = [@ EXCEPT
                    !.chunks_updated = IF known THEN @ + 1 ELSE @,
                    !.chunks_added = IF known THEN @ ELSE @ + 1],
                !.cur = [cur EXCEPT
                    !.idx = idx + 1,
                    !.deleted_chunk_ids =
                        IF known THEN @ \cup {cur.existing_chunks[idx]} ELSE @,
                    !.to_embed_texts = Append(@, txt),
                    !.to_embed_chunk_ids = Append(@, cid)]]]
       /\ UNCHANGED <<files, documents, vectors, faiss, row_to_chunk, splits,
                      resp, rollback_req, index_files, add_calls, index_log, chunk_call>>

\* ingest_docs, lines 97-115, once the loop has no chunk left to insert: the
\* deletions, the embedding call, add_vectors and set_vector_row.  provider_up:
\* whether the embedding provider answers.
ingest_embed(w, provider_up) ==
    LET pass == passes[w]
        cur == pass.cur
        new_indices == 0 .. (Len(cur.new_chunks) - 1)
        deleted_chunk_ids ==
            cur.deleted_chunk_ids \cup
            {cur.existing_chunks[i] : i \in DOMAIN cur.existing_chunks \ new_indices}
        embed == cur.to_embed_texts # <<>>
        added == add_vectors(faiss, row_to_chunk, embed_texts(cur.to_embed_texts),
                             cur.to_embed_chunk_ids)
        RECURSIVE record_rows(_, _)
        record_rows(vecs, k) ==
            IF k > Len(cur.to_embed_chunk_ids) THEN vecs
            ELSE record_rows(set_vector_row(vecs, cur.to_embed_chunk_ids[k],
                                            added.rows[k]), k + 1)
    IN /\ pass.pc = "chunks"
       /\ next_insert(chunks, cur) = Len(cur.new_chunks)
       /\ embed \/ provider_up
       /\ UNCHANGED <<files, documents, chunks, splits, rollback_req,
                      add_calls, index_log, chunk_call>>
       /\ IF embed /\ ~provider_up
          THEN \* embed_texts raises: nothing catches it, the request fails
               /\ passes' = [passes EXCEPT ![w] = IdlePass]
               /\ resp' = Failed("ingest_failed", "embed", cur.path)
               /\ UNCHANGED <<vectors, faiss, row_to_chunk, index_files>>
          ELSE /\ passes' = [passes EXCEPT ![w] =
                    [pass EXCEPT
                        !.pc = "walk",
                        !.todo = Tail(@),
                        !.cur = NoDocLocals,
                        !.summary = [@ EXCEPT
                            !.chunks_deactivated = @ + Cardinality(deleted_chunk_ids),
                            !.embed_calls = IF embed THEN @ + 1 ELSE @,
                            !.docs_changed = @ + 1]]]
               /\ vectors' = IF embed THEN record_rows(vectors, 1) ELSE vectors
               /\ faiss' = IF embed THEN added.faiss ELSE faiss
               /\ row_to_chunk' = IF embed THEN added.row_to_chunk ELSE row_to_chunk
               /\ index_files' = IF embed
                                 THEN saved_files(added.faiss, added.row_to_chunk)
                                 ELSE index_files
               /\ UNCHANGED resp

\* ingest_docs, lines 117-118: the walk is over, the summary is returned.
ingest_return(w) ==
    /\ passes[w].pc = "walk"
    /\ passes[w].todo = <<>>
    /\ resp' = [op |-> "ingest", summary |-> passes[w].summary, log |-> <<>>]
    /\ passes' = [passes EXCEPT ![w] = IdlePass]
    /\ UNCHANGED <<files, documents, chunks, vectors, faiss, row_to_chunk,
                   splits, rollback_req, index_files, add_calls, index_log, chunk_call>>

\* documents_rollback, lines 158-162: the document is read and the version is
\* checked against its max_version.
rollback_check(path, version) ==
    LET doc == get_document_by_path(documents, path)
    IN /\ rollback_req.pc = "idle"
       /\ UNCHANGED <<files, documents, chunks, vectors, faiss, row_to_chunk,
                      splits, passes, index_files, add_calls, index_log, chunk_call>>
       /\ IF doc = 0
          THEN /\ resp' = [op |-> "rollback", status |-> 404]
               /\ UNCHANGED rollback_req
          ELSE IF version < 1 \/ version > max_v_of(documents[doc])
          THEN /\ resp' = [op |-> "rollback", status |-> 400,
                           max_version |-> max_v_of(documents[doc])]
               /\ UNCHANGED rollback_req
          ELSE /\ rollback_req' = [pc |-> "set", path |-> path, version |-> version]
               /\ UNCHANGED resp

\* documents_rollback, lines 163-166: set_active_version and the response.
rollback_set ==
    LET path == rollback_req.path
        docs2 == set_active_version(documents, path, rollback_req.version)
        doc == get_document_by_path(docs2, path)
    IN /\ rollback_req.pc = "set"
       /\ documents' = docs2
       /\ resp' = [op |-> "rollback", status |-> 200, path |-> path,
                   active_version |-> docs2[doc].version,
                   max_version |-> max_v_of(docs2[doc])]
       /\ rollback_req' = [pc |-> "idle"]
       /\ UNCHANGED <<files, chunks, vectors, faiss, row_to_chunk, splits,
                      passes, index_files, add_calls, index_log, chunk_call>>

\* GET /documents/status
documents_status ==
    /\ resp' = [op |-> "status",
                documents |-> [d \in DOMAIN documents |->
                    [path |-> documents[d].path,
                     active_version |-> documents[d].version,
                     max_version |-> max_v_of(documents[d]),
                     active_chunks |-> Cardinality(
                        list_chunks_for_doc_version(chunks, d, documents[d].version))]],
                total_chunks_all_versions |-> Len(chunks)]
    /\ UNCHANGED <<files, documents, chunks, vectors, faiss, row_to_chunk, splits>>
    /\ UNCHANGED pvars

\* The process dies and is started again: the requests in flight are gone, the
\* tables are as committed, the index is loaded from its files.
crash_restart ==
    LET loaded == load_or_create(index_files)
    IN /\ passes' = [w \in Workers |-> IdlePass]
       /\ rollback_req' = [pc |-> "idle"]
       /\ add_calls' = [c \in Callers |-> IdleCall]
       /\ index_log' = [index_log EXCEPT !.returned = {}]
       /\ faiss' = loaded.faiss
       /\ row_to_chunk' = loaded.row_to_chunk
       /\ resp' = [op |-> "restart", rows |-> Len(loaded.faiss),
                   mapped |-> Len(loaded.row_to_chunk)]
       /\ UNCHANGED <<files, documents, chunks, vectors, splits, index_files, chunk_call>>

\* A corpus request of the step-by-step specifications.
step_update == \E c \in StepContents : documents_update("a.md", c)

\* One ingest pass at a time, its steps interleaved with a rollback's.
NextRollback ==
    \/ step_update
    \/ ingest_begin(1)
    \/ ingest_scan(1, TRUE)
    \/ ingest_insert(1)
    \/ ingest_embed(1, TRUE)
    \/ ingest_return(1)
    \/ \E p \in Paths : \E v \in 0 .. (MaxVersion + 1) : rollback_check(p, v)
    \/ rollback_set

SpecRollback == Init /\ [][NextRollback]_vars

\* A corpus of one file, not ingested yet.
InitConcurrent ==
    /\ InitThreads
    /\ files = [p \in Paths |-> IF p = "a.md" THEN DocU ELSE NoFile]
    /\ documents = <<>>
    /\ chunks = <<>>
    /\ vectors = <<>>
    /\ faiss = <<>>
    /\ row_to_chunk = <<>>
    /\ splits = [p \in Paths |-> <<>>]
    /\ resp = [op |-> "init"]

\* Ingest passes on two threads, a reader, and the file rewritten.
NextConcurrent ==
    \/ documents_update("a.md", DocS)
    \/ \E w \in Workers : ingest_begin(w)
    \/ \E w \in Workers : ingest_scan(w, TRUE)
    \/ \E w \in Workers : ingest_insert(w)
    \/ \E w \in Workers : ingest_embed(w, TRUE)
    \/ \E w \in Workers : ingest_return(w)
    \/ documents_status

SpecConcurrent == InitConcurrent /\ [][NextConcurrent]_vars

\* A corpus of two files.
InitFaults ==
    /\ InitThreads
    /\ files = [p \in Paths |-> IF p = "a.md" THEN DocU ELSE DocS]
    /\ documents = <<>>
    /\ chunks = <<>>
    /\ vectors = <<>>
    /\ faiss = <<>>
    /\ row_to_chunk = <<>>
    /\ splits = [p \in Paths |-> <<>>]
    /\ resp = [op |-> "init"]

\* One ingest pass at a time, with files that cannot be read, an embedding
\* provider that can be down and a process that can die.
NextFaults ==
    \/ step_update
    \/ ingest_begin(1)
    \/ \E readable \in BOOLEAN : ingest_scan(1, readable)
    \/ ingest_insert(1)
    \/ \E provider_up \in BOOLEAN : ingest_embed(1, provider_up)
    \/ ingest_return(1)
    \/ crash_restart

SpecFaults == InitFaults /\ [][NextFaults]_vars

\* ---------------------------------------------- rag/index.py, step by step
\*
\* The one VectorIndex of the process, called from the threads of the pool.

\* The vector of a chunk id in the index specification.
VecOf(cid) == Vec(Texts[((cid - 1) % Len(Texts)) + 1])

\* add_vectors, line 36: start = len(self.row_to_chunk).  The n chunk ids are
\* new ones, as insert_chunk returns them.
add_begin(c, n) ==
    LET ids == [i \in 1 .. n |-> index_log.issued + i]
    IN /\ add_calls[c].pc = "idle"
       /\ index_log.adds < MaxAdds
       /\ add_calls' = [add_calls EXCEPT ![c] =
            [pc |-> "add", start |-> Len(row_to_chunk),
             vecs |-> [i \in 1 .. n |-> VecOf(ids[i])], chunk_ids |-> ids]]
       /\ index_log' = [index_log EXCEPT !.issued = @ + n, !.adds = @ + 1]
       /\ UNCHANGED <<files, documents, chunks, vectors, faiss, row_to_chunk,
                      splits, resp, passes, rollback_req, index_files, chunk_call>>

\* add_vectors, line 37: self.index.add(vectors).
add_index(c) ==
    /\ add_calls[c].pc = "add"
    /\ faiss' = faiss \o add_calls[c].vecs
    /\ add_calls' = [add_calls EXCEPT ![c].pc = "extend"]
    /\ UNCHANGED <<files, documents, chunks, vectors, row_to_chunk, splits,
                   resp, passes, rollback_req, index_files, index_log, chunk_call>>

\* add_vectors, line 38: self.row_to_chunk.extend(chunk_ids).
add_extend(c) ==
    /\ add_calls[c].pc = "extend"
    /\ row_to_chunk' = row_to_chunk \o add_calls[c].chunk_ids
    /\ add_calls' = [add_calls EXCEPT ![c].pc = "write_index"]
    /\ UNCHANGED <<files, documents, chunks, vectors, faiss, splits, resp,
                   passes, rollback_req, index_files, index_log, chunk_call>>

\* save, line 31: write_index(self.index, self.index_path).
add_write_index(c) ==
    /\ add_calls[c].pc = "write_index"
    /\ index_files' = [index_files EXCEPT !.index_exists = TRUE, !.index = faiss]
    /\ add_calls' = [add_calls EXCEPT ![c].pc = "write_map"]
    /\ UNCHANGED <<files, documents, chunks, vectors, faiss, row_to_chunk,
                   splits, resp, passes, rollback_req, index_log, chunk_call>>

\* save, lines 32-33, and add_vectors, line 40: the mapping is written and the
\* rows start .. start + n - 1 are returned.
add_write_map(c) ==
    LET call == add_calls[c]
        rows == [i \in DOMAIN call.chunk_ids |-> call.start + i - 1]
    IN /\ call.pc = "write_map"
       /\ index_files' = [index_files EXCEPT !.map_exists = TRUE,
                                             !.map = row_to_chunk]
       /\ add_calls' = [add_calls EXCEPT ![c] = IdleCall]
       /\ index_log' = [index_log EXCEPT !.returned =
              @ \cup {[rows |-> rows, chunk_ids |-> call.chunk_ids,
                       vecs |-> call.vecs]}]
       /\ resp' = [op |-> "add_vectors", rows |-> rows]
       /\ UNCHANGED <<files, documents, chunks, vectors, faiss, row_to_chunk,
                      splits, passes, rollback_req, chunk_call>>

\* logical_delete_chunk_ids, with its save when a row was marked.
index_delete(ids) ==
    LET r2c == logical_delete_chunk_ids(row_to_chunk, ids)
    IN /\ index_log.deletes < MaxDeletes
       /\ row_to_chunk' = IF ids = {} THEN row_to_chunk ELSE r2c
       /\ index_files' = IF ids # {} /\ r2c # row_to_chunk
                         THEN saved_files(faiss, r2c) ELSE index_files
       /\ index_log' = [index_log EXCEPT !.deletes = @ + 1,
                                         !.tombstoned = @ \cup ids]
       /\ resp' = [op |-> "delete", ids |-> ids]
       /\ UNCHANGED <<files, documents, chunks, vectors, faiss, splits, passes,
                      rollback_req, add_calls, chunk_call>>

\* search: IndexError when the backend returns a row the mapping does not have.
index_search(q, top_k) ==
    \E order \in ScoreOrders(faiss, q) :
        LET rows == SubSeq(order, 1, Min(top_k, Len(order)))
        IN /\ resp' =
                IF \E i \in DOMAIN rows : rows[i] >= Len(row_to_chunk)
                THEN [op |-> "search", top_k |-> top_k, error |-> "IndexError"]
                ELSE [op |-> "search", top_k |-> top_k,
                      hits |-> search_rows(faiss, row_to_chunk, q, rows)]
           /\ UNCHANGED <<files, documents, chunks, vectors, faiss, row_to_chunk,
                          splits>>
           /\ UNCHANGED pvars

\* The chunk ids whose add_vectors call is in flight.
InFlightIds == UNION {Range(add_calls[c].chunk_ids) : c \in Callers}

\* The index under add_vectors calls on two threads, deletes of chunk ids that
\* were added, searches, and restarts of the process.
NextIndex ==
    \/ \E c \in Callers : \E n \in {1, 2} : add_begin(c, n)
    \/ \E c \in Callers : add_index(c)
    \/ \E c \in Callers : add_extend(c)
    \/ \E c \in Callers : add_write_index(c)
    \/ \E c \in Callers : add_write_map(c)
    \/ \E ids \in SUBSET ((1 .. index_log.issued) \ InFlightIds) :
            (Cardinality(ids) <= 1 \/ ids = {1, 2}) /\ index_delete(ids)
    \/ \E top_k \in {1, TOP_K} : index_search("q_cap", top_k)
    \/ crash_restart

SpecIndex == Init /\ [][NextIndex]_vars

\* The index under calls that come one after the other: an add_vectors call
\* runs to its end before the next call, delete or search begins.
NextIndexSeq ==
    \/ \E n \in {1, 2} : add_begin(1, n)
    \/ add_index(1)
    \/ add_extend(1)
    \/ add_write_index(1)
    \/ add_write_map(1)
    \/ \E ids \in SUBSET (1 .. index_log.issued) :
            /\ add_calls[1].pc = "idle"
            /\ Cardinality(ids) <= 1 \/ ids = {1, 2}
            /\ index_delete(ids)
    \/ \E top_k \in {1, TOP_K} :
            add_calls[1].pc = "idle" /\ index_search("q_cap", top_k)

SpecIndexSeq == Init /\ [][NextIndexSeq]_vars

\* ------------------------------------------- chunk_text, step by step

\* The longest text handed to chunk_text, and the windows after which a call
\* is no longer followed.
MaxTextLen == 25
MaxWindows == 30

Letters ==
    <<"a", "b", "c", "d", "e", "f", "g", "h", "i", "j", "k", "l", "m",
      "n", "o", "p", "q", "r", "s", "t", "u", "v", "w", "x", "y", "z">>

\* The texts handed to chunk_text: up to MaxTextLen letters, with or without
\* white space before and after them.
ChunkerTexts ==
    {lead \o [k \in 1 .. len |-> Letters[((k - 1) % Len(Letters)) + 1]] \o trail :
        len \in 0 .. MaxTextLen, lead \in {<<>>, <<" ">>},
        trail \in {<<>>, <<"\n", " ">>}}

\* The <<chunk_chars, overlap_chars>> settings: config.py reads both from the
\* environment and compares them with nothing.
ChunkerParams ==
    {<<10, 3>>, <<3, 1>>, <<3, 0>>, <<2, 1>>, <<1, 0>>, <<3, 3>>, <<2, 3>>}

\* chunk_text, lines 18-23: strip, the empty result, the locals of the loop.
chunk_text_begin(raw, chunk_chars, overlap_chars) ==
    LET text == strip(raw)
    IN /\ chunk_call.pc \in {"idle", "done"}
       /\ chunk_call' =
            [pc |-> IF text = <<>> THEN "done" ELSE "loop",
             raw |-> raw, text |-> text, chunk_chars |-> chunk_chars,
             overlap_chars |-> overlap_chars, i |-> 0, out |-> <<>>,
             starts |-> <<>>]
       /\ UNCHANGED <<files, documents, chunks, vectors, faiss, row_to_chunk,
                      splits, resp, passes, rollback_req, index_files,
                      add_calls, index_log>>

\* One turn of the while loop, lines 24-29; starts records the i of each window.
chunk_text_iterate ==
    LET c == chunk_call
        n == Len(c.text)
        j == window_end(n, c.i, c.chunk_chars)
    IN /\ c.pc = "loop"
       /\ c.i < n
       /\ Len(c.out) < MaxWindows
       /\ chunk_call' =
            [c EXCEPT !.out = Append(@, SubSeq(c.text, c.i + 1, j)),
                      !.starts = Append(@, c.i),
                      !.pc = IF j = n THEN "done" ELSE "loop",
                      !.i = IF j = n THEN c.i ELSE next_start(j, c.overlap_chars)]
       /\ UNCHANGED <<files, documents, chunks, vectors, faiss, row_to_chunk,
                      splits, resp, passes, rollback_req, index_files,
                      add_calls, index_log>>

NextChunker ==
    \/ \E raw \in ChunkerTexts : \E p \in ChunkerParams :
            chunk_text_begin(raw, p[1], p[2])
    \/ chunk_text_iterate

SpecChunker == Init /\ [][NextChunker]_vars

\* ------------------------------- app.py: raw content by relative path

\* The longest path a request names.
MaxPathLen == 5

\* The paths a request names: names of the letter a and of dots, separated by
\* "/" throughout or by "\\" throughout.
PosixPaths == UNION {[1 .. n -> {"a", ".", "/"}] : n \in 0 .. MaxPathLen}

with_backslashes(path) ==
    [k \in DOMAIN path |-> IF path[k] = "/" THEN "\\" ELSE path[k]]

RequestPaths == PosixPaths \cup {with_backslashes(path) : path \in PosixPaths}

\* docs_root = os.path.abspath(DOCS_DIR): here the directory /a.
docs_root == <<"/", "a">>

\* rel_path.replace("\\", "/")
replace_backslashes(s) == [k \in DOMAIN s |-> IF s[k] = "\\" THEN "/" ELSE s[k]]

\* .lstrip("/")
RECURSIVE lstrip_sep(_)
lstrip_sep(s) == IF s # <<>> /\ Head(s) = "/" THEN lstrip_sep(Tail(s)) ELSE s

\* str.startswith
startswith(s, prefix) ==
    Len(s) >= Len(prefix) /\ SubSeq(s, 1, Len(prefix)) = prefix

\* os.path.join(a, b): b alone when it is absolute.
path_join(a, b) ==
    IF startswith(b, <<"/">>) THEN b
    ELSE IF a = <<>> \/ a[Len(a)] = "/" THEN a \o b
    ELSE a \o <<"/">> \o b

\* path.split("/")
RECURSIVE split_sep(_)
split_sep(s) ==
    IF \A k \in DOMAIN s : s[k] # "/" THEN <<s>>
    ELSE LET k == CHOOSE i \in DOMAIN s :
                    s[i] = "/" /\ \A j \in 1 .. (i - 1) : s[j] # "/"
         IN <<SubSeq(s, 1, k - 1)>> \o split_sep(SubSeq(s, k + 1, Len(s)))

\* "/".join(comps)
RECURSIVE join_sep(_)
join_sep(comps) ==
    IF comps = <<>> THEN <<>>
    ELSE IF Len(comps) = 1 THEN comps[1]
    ELSE comps[1] \o <<"/">> \o join_sep(Tail(comps))

\* The loop of posixpath.normpath over the components of an absolute path:
\* empty and "." components are dropped, ".." removes the component before it
\* and is dropped at the root.
RECURSIVE norm_comps(_, _)
norm_comps(todo, done) ==
    IF todo = <<>> THEN done
    ELSE LET comp == Head(todo)
         IN IF comp = <<>> \/ comp = <<".">> THEN norm_comps(Tail(todo), done)
            ELSE IF comp = <<".", ".">>
            THEN norm_comps(Tail(todo),
                            IF done = <<>> THEN done
                            ELSE SubSeq(done, 1, Len(done) - 1))
            ELSE norm_comps(Tail(todo), Append(done, comp))

\* os.path.abspath of a path that is absolute: normpath.
abspath(path) == <<"/">> \o join_sep(norm_comps(split_sep(path), <<>>))

\* Variant of below_docs_root that compares with docs_root alone.
below_docs_root_no_sep(abs_path) == startswith(abs_path, docs_root)

\* abs_path.startswith(docs_root + os.sep)
below_docs_root(abs_path) == startswith(abs_path, docs_root \o <<"/">>)

\* _safe_doc_path: the absolute path of the file, or the HTTP 400.
safe_doc_path(rel_path) ==
    LET name == lstrip_sep(replace_backslashes(rel_path))
        abs_path == abspath(path_join(docs_root, name))
    IN IF ~below_docs_root(abs_path)
       THEN [ok |-> FALSE, abs_path |-> <<>>]
       ELSE [ok |-> TRUE, abs_path |-> abs_path]

\* GET /documents/content: the 404 when os.path.exists finds nothing at the
\* path; else the file is opened, and the response keeps which file that was.
documents_content(rel_path, exists) ==
    LET safe == safe_doc_path(rel_path)
    IN /\ resp' =
            IF ~safe.ok
            THEN [op |-> "content", status |-> 400, path |-> <<>>, opened |-> FALSE]
            ELSE IF ~exists
            THEN [op |-> "content", status |-> 404, path |-> <<>>, opened |-> FALSE]
            ELSE [op |-> "content", status |-> 200, path |-> safe.abs_path,
                  opened |-> TRUE]
       /\ UNCHANGED <<files, documents, chunks, vectors, faiss, row_to_chunk, splits>>
       /\ UNCHANGED pvars

\* POST /documents/content for any path: the file opened for writing.
documents_update_path(rel_path) ==
    LET safe == safe_doc_path(rel_path)
    IN /\ resp' =
            IF ~safe.ok
            THEN [op |-> "update_content", status |-> 400, path |-> <<>>,
                  opened |-> FALSE]
            ELSE [op |-> "update_content", status |-> 200, path |-> safe.abs_path,
                  opened |-> TRUE]
       /\ UNCHANGED <<files, documents, chunks, vectors, faiss, row_to_chunk, splits>>
       /\ UNCHANGED pvars

\* Reads and writes of raw content at the paths a request can name; the files
\* are told apart by their absolute path, the corpus of the other
\* specifications being the files at two names below the root.
NextPaths ==
    \/ \E rel_path \in RequestPaths : \E exists \in BOOLEAN :
            documents_content(rel_path, exists)
    \/ \E rel_path \in RequestPaths : documents_update_path(rel_path)

SpecPaths == Init /\ [][NextPaths]_vars

\* ------------------------------------------------------------- properties

\* The row of a path in the documents table (the path has one).
DocOf(path) == documents[get_document_by_path(documents, path)]

\* The changed-document entries of the last ingest pass.
ChangedEntries == {resp.log[k] : k \in {k \in DOMAIN resp.log : resp.log[k].changed}}

\* The chunk list of the version before the one an entry created.
PrevSplit(e) ==
    IF e.version > 1 /\ e.version - 1 <= Len(splits[e.path])
    THEN splits[e.path][e.version - 1] ELSE <<>>

\* C1: monotonic versioning.  In every ingest pass, each file whose fingerprint
\* differs from the stored one (or that has no document yet) ends with
\* max_version one above the document's prior max_version (1 for a first
\* ingest), whatever the active version was, and with active_version =
\* max_version.
C1_MonotonicVersioning ==
    [][resp'.op = "ingest" =>
        \A p \in Paths :
            LET d == get_document_by_path(documents, p)
                d2 == get_document_by_path(documents', p)
            IN (files[p] # NoFile
                /\ (d = 0 \/ documents[d].doc_hash # sha256_text(files[p])))
               => /\ d2 # 0
                  /\ documents'[d2].max_version =
                        (IF d = 0 THEN 1 ELSE documents[d].max_version + 1)
                  /\ documents'[d2].version = documents'[d2].max_version]_vars

\* An ingest pass has created version 3 of a document that was rolled back
\* (active version below max_version) when the pass started.
C1_Witness ==
    /\ resp.op = "ingest"
    /\ \E e \in ChangedEntries :
        /\ e.doc_row # <<>>
        /\ e.doc_row.version < e.doc_row.max_version
        /\ e.version = e.doc_row.max_version + 1
        /\ DocOf(e.path).max_version = e.version

\* C2: idempotence.  An ingest pass over a corpus in which every file has the
\* fingerprint stored for its document (nothing was written since the last
\* pass, whatever rollbacks, diffs and chats came in between) reports
\* docs_changed = 0, makes no embedding call and leaves max_version and
\* active_version of every document, the chunk table, the vectors table and
\* the vector index as they were.
C2_Idempotence ==
    [][(/\ resp'.op = "ingest"
        /\ \A p \in Paths :
            files[p] # NoFile =>
                LET d == get_document_by_path(documents, p)
                IN d # 0 /\ documents[d].doc_hash = sha256_text(files[p]))
       => /\ resp'.summary.docs_changed = 0
          /\ resp'.summary.embed_calls = 0
          /\ documents' = documents
          /\ chunks' = chunks
          /\ vectors' = vectors
          /\ faiss' = faiss
          /\ row_to_chunk' = row_to_chunk]_vars

\* A pass found every file it scanned unchanged, over a corpus with a document
\* that has several versions and was rolled back.
C2_Witness ==
    /\ resp.op = "ingest"
    /\ resp.summary.docs_scanned >= 1
    /\ resp.summary.docs_unchanged = resp.summary.docs_scanned
    /\ \E d \in DOMAIN documents :
        documents[d].max_version >= 2 /\ documents[d].version < documents[d].max_version

\* C3: rollback isolation.  Every context and every citation chat returns is a
\* chunk whose version is the active version of its document.
C3_RollbackIsolation ==
    resp.op = "chat" =>
        /\ \A k \in DOMAIN resp.contexts :
            LET c == chunks[resp.contexts[k].chunk_id]
            IN c.version = documents[c.doc_id].version
        /\ \A k \in DOMAIN resp.citations :
            LET c == chunks[resp.citations[k].chunk_id]
            IN c.version = documents[c.doc_id].version

\* chat answered over a rolled-back document: it returned a context of the
\* active version and discarded a hit of a later version.
C3_Witness ==
    /\ resp.op = "chat"
    /\ \E k \in DOMAIN resp.contexts :
        LET c == chunks[resp.contexts[k].chunk_id]
        IN /\ documents[c.doc_id].version < documents[c.doc_id].max_version
           /\ \E h \in DOMAIN resp.hits :
                /\ chunks[resp.hits[h].chunk_id].doc_id = c.doc_id
                /\ chunks[resp.hits[h].chunk_id].version > c.version
                /\ resp.hits[h].score >= resp.contexts[k].score

\* C4 (as specified; the code violates it): after an ingest pass created version v of a document whose
\* text splits into n chunks, the store holds exactly one chunk row of version v
\* for every ordinal 0..n-1.
C4_AllOrdinalsWritten ==
    resp.op = "ingest" =>
        \A e \in ChangedEntries :
            LET doc == get_document_by_path(documents, e.path)
                ids == list_chunks_for_doc_version(chunks, doc, e.version)
            IN /\ {chunks[c].chunk_index : c \in ids} = 0 .. (Len(e.new_chunks) - 1)
               /\ Cardinality(ids) = Len(e.new_chunks)

\* C5 (as specified; the code violates it): the diff of two consecutive versions with the same number n
\* of chunks that differ at k ordinals reports k changed, n - k unchanged, no
\* added and no removed.
C5_DiffOfConsecutiveVersions ==
    (/\ resp.op = "diff"
     /\ resp.status = 200
     /\ resp.report.to_version = resp.report.from_version + 1
     /\ resp.report.to_version <= Len(splits[resp.report.path])
     /\ Len(splits[resp.report.path][resp.report.from_version])
            = Len(splits[resp.report.path][resp.report.to_version]))
    => LET a == splits[resp.report.path][resp.report.from_version]
           b == splits[resp.report.path][resp.report.to_version]
           k == Cardinality({i \in DOMAIN a : a[i] # b[i]})
       IN /\ resp.report.summary.changed = k
          /\ resp.report.summary.unchanged = Len(a) - k
          /\ resp.report.summary.added = 0
          /\ resp.report.summary.removed = 0

\* C6 (as specified; the code violates it): the counters of an ingest pass classify the ordinals of a
\* changed document against the previous version only.
C6_CountersAgainstPreviousVersion ==
    resp.op = "ingest" =>
        \A e \in ChangedEntries :
            LET prev == PrevSplit(e)
                new == e.new_chunks
            IN /\ e.chunks_added =
                    Cardinality({i \in DOMAIN new : i \notin DOMAIN prev})
               /\ e.chunks_updated =
                    Cardinality({i \in DOMAIN new \cap DOMAIN prev : new[i] # prev[i]})
               /\ e.chunks_deactivated =
                    Cardinality({i \in DOMAIN prev : i \notin DOMAIN new})

\* C7 (as specified; the code violates it): the texts handed to the embedder for a changed document are
\* exactly its chunks that are new or differ from the previous version's chunk
\* at the same ordinal, in one call at most, and every returned row is recorded
\* for its chunk id.
C7_IncrementalEmbedding ==
    resp.op = "ingest" =>
        /\ \A k \in DOMAIN resp.log :
            ~resp.log[k].changed => "to_embed_texts" \notin DOMAIN resp.log[k]
        /\ \A e \in ChangedEntries :
            LET prev == PrevSplit(e)
                new == e.new_chunks
                delta == SelectSeq([i \in DOMAIN new |-> <<i, new[i]>>],
                                   LAMBDA x : x[1] \notin DOMAIN prev \/ prev[x[1]] # x[2])
            IN /\ e.to_embed_texts = [i \in DOMAIN delta |-> delta[i][2]]
               /\ e.embed_calls <= 1
               /\ \A i \in DOMAIN e.rows :
                    /\ vectors[e.to_embed_chunk_ids[i]] = e.rows[i]
                    /\ row_to_chunk[e.rows[i] + 1] = e.to_embed_chunk_ids[i]

\* The hits of the last chat whose chunk is of its document's active version,
\* in the order the index returned them.
ActiveHits ==
    SelectSeq(resp.hits,
              LAMBDA h : chunks[h.chunk_id].version
                            = documents[chunks[h.chunk_id].doc_id].version)

BestScore(hits) ==
    CHOOSE s \in {hits[i].score : i \in DOMAIN hits} :
        \A i \in DOMAIN hits : hits[i].score <= s

Scores(cs) == [k \in DOMAIN cs |-> cs[k].score]

\* The active hits at or above max(tau_min, best - window).
Admitted ==
    LET t == Max(MIN_RELEVANCE_SCORE, BestScore(ActiveHits) - SCORE_WINDOW)
    IN SelectSeq(ActiveHits, LAMBDA h : h.score >= t)

\* C8: confidence gate admission.  When the best active-version hit scores at
\* least tau_min, the contexts are active-version hits with score >=
\* max(tau_min, best - window), each once, in descending score order, as many
\* as there are such hits up to N_max, and no such hit left out scores above a
\* retained one; active hits scoring 90, 83, 50 give exactly the first two.
C8_GateAdmission ==
    (/\ resp.op = "chat"
     /\ ActiveHits # <<>>
     /\ BestScore(ActiveHits) >= MIN_RELEVANCE_SCORE)
    => LET cs == resp.contexts
           ids == {cs[k].chunk_id : k \in DOMAIN cs}
       IN /\ Len(cs) = Min(MAX_CONTEXTS, Len(Admitted))
          /\ Cardinality(ids) = Len(cs)
          /\ \A k \in DOMAIN cs : \E i \in DOMAIN Admitted :
                /\ Admitted[i].chunk_id = cs[k].chunk_id
                /\ Admitted[i].score = cs[k].score
          /\ \A k \in 1 .. (Len(cs) - 1) : cs[k].score >= cs[k + 1].score
          /\ \A i \in DOMAIN Admitted : \A k \in DOMAIN cs :
                Admitted[i].chunk_id \notin ids => Admitted[i].score <= cs[k].score
          /\ {ActiveHits[i].score : i \in DOMAIN ActiveHits} = {90, 83, 50}
                /\ Len(ActiveHits) = 3
             => Scores(cs) = <<90, 83>>

\* chat answered with active hits scoring exactly 90, 83 and 50.
C8_Witness ==
    /\ resp.op = "chat"
    /\ Len(ActiveHits) = 3
    /\ {ActiveHits[i].score : i \in DOMAIN ActiveHits} = {90, 83, 50}
    /\ Len(resp.contexts) = 2

\* C9: no confident grounding.  When no hit of an active version remains or the
\* best one scores below tau_min, chat returns no context, no citation and the
\* fixed answer.
C9_NoConfidentGrounding ==
    (/\ resp.op = "chat"
     /\ (ActiveHits = <<>> \/ BestScore(ActiveHits) < MIN_RELEVANCE_SCORE))
    => /\ resp.contexts = <<>>
       /\ resp.citations = <<>>
       /\ resp.answer = NOT_ENOUGH

\* chat answered over an index with active hits, the best one below tau_min.
C9_Witness ==
    /\ resp.op = "chat"
    /\ ActiveHits # <<>>
    /\ BestScore(ActiveHits) < MIN_RELEVANCE_SCORE
    /\ resp.answer = NOT_ENOUGH

\* One more candidate, of a score below the best: the scores at and around the
\* gate's two thresholds.
ExtraScores(best) ==
    {s \in {0, MIN_RELEVANCE_SCORE - 1, MIN_RELEVANCE_SCORE,
            best - SCORE_WINDOW - 1, best - SCORE_WINDOW, best - 1} :
        s >= 0 /\ s < best}

ExtraContext(s) ==
    [source_path |-> "a.md", chunk_id |-> 0, score |-> s, text |-> <<"n","e","w">>]

InsertAt(seq, k, x) == SubSeq(seq, 1, k) \o <<x>> \o SubSeq(seq, k + 1, Len(seq))

\* C10: gate monotonicity.  With one more candidate of a score below the best
\* one added at any place of the candidate list, the gate returns the same
\* first context (or none as before) and at most N_max contexts.
C10_GateMonotonicity ==
    (resp.op = "chat" /\ resp.candidates # <<>>)
    => \A s \in ExtraScores(BestScore(resp.candidates)) :
       \A k \in 0 .. Len(resp.candidates) :
          LET g == confidence_gate(sort_by_score(
                        InsertAt(resp.candidates, k, ExtraContext(s))))
          IN /\ Len(g) <= MAX_CONTEXTS
             /\ Len(resp.contexts) <= MAX_CONTEXTS
             /\ IF resp.contexts = <<>> THEN g = <<>>
                ELSE g # <<>> /\ g[1] = resp.contexts[1]

\* chat answered with N_max contexts retained out of more candidates within
\* the window: one more candidate has to be cut.
C10_Witness ==
    /\ resp.op = "chat"
    /\ Len(resp.contexts) = MAX_CONTEXTS
    /\ Len(resp.candidates) > MAX_CONTEXTS
    /\ \A k \in DOMAIN resp.candidates :
        resp.candidates[k].score >= BestScore(resp.candidates) - SCORE_WINDOW

\* C11: in every state of a run of ingest passes, one at a time, and rollback
\* requests whose steps interleave with the steps of a pass, every document has
\* max_version >= active_version >= 1.
C11_VersionBounds ==
    \A d \in DOMAIN documents :
        /\ documents[d].version >= 1
        /\ max_v_of(documents[d]) >= documents[d].version

\* A rollback has set the active version while a pass was writing the chunks
\* of the version it had just created for the same path.
C11_Witness ==
    /\ resp.op = "rollback"
    /\ resp.status = 200
    /\ passes[1].pc = "chunks"
    /\ passes[1].cur.path = resp.path
    /\ resp.max_version = passes[1].cur.active_version
    /\ resp.active_version < resp.max_version

\* C12: chunk immutability.  No request changes or removes a chunk row, and a
\* row a request adds is of a version above the document's max_version so far:
\* the rows of every version v <= max_version stay what they were.
C12_ChunkImmutability ==
    [][/\ \A c \in DOMAIN chunks : c \in DOMAIN chunks' /\ chunks'[c] = chunks[c]
       /\ \A c \in DOMAIN chunks' \ DOMAIN chunks :
            chunks'[c].doc_id \in DOMAIN documents
                => chunks'[c].version > max_v_of(documents[chunks'[c].doc_id])]_vars

\* A pass has written a third version in which chunks of ordinals that had rows
\* already were written anew.
C12_Witness ==
    /\ resp.op = "ingest"
    /\ \E e \in ChangedEntries : e.version >= 3 /\ e.chunks_updated >= 1
    /\ \E c \in DOMAIN chunks : chunks[c].version = 1

\* C13 (as specified; the code violates it): atomic version assignment.  Two
\* ingest passes never write chunk rows under the same (document, version), and
\* no two chunk rows have the same (document, version, ordinal).
C13_AtomicVersionAssignment ==
    /\ \A w1, w2 \in Workers :
        (/\ w1 # w2
         /\ passes[w1].pc = "chunks"
         /\ passes[w2].pc = "chunks"
         /\ passes[w1].cur.doc_id = passes[w2].cur.doc_id)
        => passes[w1].cur.active_version # passes[w2].cur.active_version
    /\ \A c1, c2 \in DOMAIN chunks :
        (/\ chunks[c1].doc_id = chunks[c2].doc_id
         /\ chunks[c1].version = chunks[c2].version
         /\ chunks[c1].chunk_index = chunks[c2].chunk_index)
        => c1 = c2

\* C14 (as specified; the code violates it): a status request that runs while
\* an ingest pass is in flight never reports a document as being at the version
\* the pass is still inserting chunks for.
C14_NoPartialVersionObserved ==
    resp.op = "status" =>
        \A d \in DOMAIN resp.documents : \A w \in Workers :
            (/\ passes[w].pc = "chunks"
             /\ passes[w].cur.doc_id = d
             /\ passes[w].cur.active_version = resp.documents[d].active_version)
            => next_insert(chunks, passes[w].cur) = Len(passes[w].cur.new_chunks)

\* C15 (as specified; the code violates it): the add_vectors calls that have
\* returned were given disjoint rows, and each row they were given maps to the
\* chunk id passed for it (or to the sentinel once deleted) and holds its vector.
C15_AddVectorsRows ==
    /\ \A r1, r2 \in index_log.returned :
        r1 # r2 => Range(r1.rows) \cap Range(r2.rows) = {}
    /\ \A r \in index_log.returned : \A i \in DOMAIN r.rows :
        /\ r.rows[i] + 1 \in DOMAIN row_to_chunk
        /\ row_to_chunk[r.rows[i] + 1] \in {r.chunk_ids[i], TOMBSTONE}
        /\ r.rows[i] + 1 \in DOMAIN faiss
        /\ faiss[r.rows[i] + 1] = r.vecs[i]

\* C16 (as specified; the code violates it): crash resume.  Once an ingest
\* pass has returned and none is running, every document whose stored
\* fingerprint is that of its
\* file has a chunk row for every chunk of the file's text, also when an earlier
\* pass died between writing the document row and inserting the chunks.
C16_CrashResume ==
    (resp.op = "ingest" /\ \A w \in Workers : passes[w].pc = "idle") =>
        \A p \in Paths :
            LET d == get_document_by_path(documents, p)
                new_chunks == chunk_text(files[p], CHUNK_CHARS, CHUNK_OVERLAP_CHARS)
            IN (/\ files[p] # NoFile
                /\ d # 0
                /\ documents[d].doc_hash = sha256_text(files[p]))
               => \A i \in DOMAIN new_chunks :
                    \E c \in list_chunks_for_doc(chunks, d) :
                        /\ chunks[c].chunk_index = i - 1
                        /\ chunks[c].chunk_hash = sha256_text(new_chunks[i])

\* C17 (as specified; the code violates it): no ingest request fails as a whole
\* because the embedding provider failed for one document.
C17_EmbeddingFailureIsPerDocument ==
    resp.op = "ingest_failed" => resp.error # "embed"

\* C18 (as specified; the code violates it): no ingest request fails as a whole
\* because one file could not be read, and the other files of the corpus have
\* been ingested when the request ends.
C18_UnreadableFileIsSkipped ==
    resp.op = "ingest_failed" =>
        /\ resp.error # "read"
        /\ \A p \in Paths \ {resp.path} :
            files[p] # NoFile => get_document_by_path(documents, p) # 0

\* C19 (as specified; the code violates it): a process that has started holds
\* a mapping as long as the backend has rows.
C19_ConsistentAfterLoad ==
    resp.op = "restart" => resp.mapped = resp.rows

\* C20: a search never returns a chunk id that was passed to
\* logical_delete_chunk_ids before it, and a delete leaves the backend as it is
\* and changes the mapping only at the rows of its ids, to the sentinel.
C20_TombstonedNeverReturned ==
    [][/\ (resp'.op = "search" /\ "hits" \in DOMAIN resp')
            => \A i \in DOMAIN resp'.hits :
                    /\ resp'.hits[i].chunk_id \notin index_log'.tombstoned
                    /\ resp'.hits[i].chunk_id # TOMBSTONE
       /\ index_log'.deletes # index_log.deletes
            => /\ faiss' = faiss
               /\ DOMAIN row_to_chunk' = DOMAIN row_to_chunk
               /\ \A i \in DOMAIN row_to_chunk :
                    row_to_chunk'[i] =
                        IF row_to_chunk[i] \in resp'.ids THEN TOMBSTONE
                        ELSE row_to_chunk[i]]_vars

\* A search over all the rows of an index with a deleted row returned hits.
C20_Witness ==
    /\ resp.op = "search"
    /\ "hits" \in DOMAIN resp
    /\ resp.hits # <<>>
    /\ resp.top_k >= Len(faiss)
    /\ \E i \in DOMAIN row_to_chunk :
        row_to_chunk[i] = TOMBSTONE /\ Score("q_cap", faiss[i].of) > resp.hits[1].score

\* The rows of one version of the document of the last diff request, and the
\* text of its row of an ordinal.
DiffRows(version) ==
    {c \in DOMAIN chunks :
        /\ chunks[c].doc_id = get_document_by_path(documents, resp.report.path)
        /\ chunks[c].version = version}

DiffText(version, idx) ==
    chunks[CHOOSE c \in DiffRows(version) : chunks[c].chunk_index = idx].text

DiffOrdinals(version) == {chunks[c].chunk_index : c \in DiffRows(version)}

\* C21: diff symmetry.  For the two versions a and b of a diff report, the
\* diff from b to a reports the added and removed counts swapped and the same
\* changed and unchanged counts.
C21_DiffSymmetry ==
    (resp.op = "diff" /\ resp.status = 200) =>
        LET fwd == resp.report.summary
            bwd == diff_doc_versions(documents, chunks, resp.report.path,
                                     resp.report.to_version,
                                     resp.report.from_version).summary
        IN /\ bwd.added = fwd.removed
           /\ bwd.removed = fwd.added
           /\ bwd.changed = fwd.changed
           /\ bwd.unchanged = fwd.unchanged
           /\ bwd.total = fwd.total

\* A diff between two versions reported removed and changed ordinals.
C21_Witness ==
    /\ resp.op = "diff"
    /\ resp.status = 200
    /\ resp.report.summary.removed >= 1
    /\ resp.report.summary.changed >= 1

\* C22: diff classification.  The per-chunk list of a diff report has the
\* ordinals of the union of the two versions' rows, each once, ascending; an
\* ordinal is added when the from version has no row of it, removed when the to
\* version has none, unchanged when the two texts are equal, else changed; the
\* four counts are those of the list and sum to total; the combined diff has
\* the diffs of the entries that are not unchanged, in order.
C22_DiffClassification ==
    (resp.op = "diff" /\ resp.status = 200) =>
        LET r == resp.report
            pc == r.per_chunk
            A == DiffOrdinals(r.from_version)
            B == DiffOrdinals(r.to_version)
            n(status) == Cardinality({k \in DOMAIN pc : pc[k].status = status})
            changes == SelectSeq(pc, LAMBDA e : e.status # "unchanged")
        IN /\ {pc[k].chunk_index : k \in DOMAIN pc} = A \cup B
           /\ \A k \in 1 .. (Len(pc) - 1) : pc[k].chunk_index < pc[k + 1].chunk_index
           /\ \A k \in DOMAIN pc :
                LET i == pc[k].chunk_index
                IN pc[k].status =
                    IF i \notin A THEN "added"
                    ELSE IF i \notin B THEN "removed"
                    ELSE IF DiffText(r.from_version, i) = DiffText(r.to_version, i)
                         THEN "unchanged"
                    ELSE "changed"
           /\ r.summary.added = n("added")
           /\ r.summary.removed = n("removed")
           /\ r.summary.changed = n("changed")
           /\ r.summary.unchanged = n("unchanged")
           /\ r.summary.total = Len(pc)
           /\ r.summary.added + r.summary.removed + r.summary.changed
                + r.summary.unchanged = r.summary.total
           /\ Len(r.combined_diff) = Len(changes)
           /\ \A k \in DOMAIN changes : r.combined_diff[k] = changes[k].diff
           /\ \A k \in DOMAIN pc : pc[k].status = "unchanged" => pc[k].diff = <<>>

\* A diff report with unchanged ordinals next to others and several entries in
\* its combined diff.
C22_Witness ==
    /\ resp.op = "diff"
    /\ resp.status = 200
    /\ resp.report.summary.unchanged >= 1
    /\ resp.report.summary.total > resp.report.summary.unchanged + 1
    /\ Len(resp.report.combined_diff) >= 2

\* C23: chunker windows.  A chunk_text call with overlap below the window
\* size returns the value of the function of its text and parameters; the text
\* cut is the input without the white space around it; the first window starts
\* at offset 0, each next one at the end of the previous one less the overlap,
\* every window but the last has the window size and the last ends at the end
\* of the text; a window size of 10 with overlap 3 on 25 characters gives the
\* starts 0, 7, 14, 21; an empty trimmed text gives no chunk.
C23_ChunkerWindows ==
    LET c == chunk_call
        n == Len(c.text)
        w == c.chunk_chars
        o == c.overlap_chars
        m == Len(c.out)
        end(k) == c.starts[k] + Len(c.out[k])
    IN (c.pc = "done" /\ o < w) =>
        /\ c.out = chunk_text(c.raw, w, o)
        /\ \E a \in 0 .. (Len(c.raw) - n) :
            /\ SubSeq(c.raw, a + 1, a + n) = c.text
            /\ \A k \in (1 .. a) \cup ((a + n + 1) .. Len(c.raw)) :
                    c.raw[k] \in Whitespace
        /\ n > 0 => (c.text[1] \notin Whitespace /\ c.text[n] \notin Whitespace)
        /\ n = 0 <=> c.out = <<>>
        /\ Len(c.starts) = m
        /\ m > 0 => (c.starts[1] = 0 /\ end(m) = n)
        /\ \A k \in 1 .. m :
            /\ c.out[k] = SubSeq(c.text, c.starts[k] + 1, end(k))
            /\ Len(c.out[k]) >= 1
            /\ Len(c.out[k]) <= w
            /\ k < m => (Len(c.out[k]) = w /\ c.starts[k + 1] = end(k) - o)
        /\ (w = 10 /\ o = 3 /\ n = 25) => c.starts = <<0, 7, 14, 21>>

\* A call with window size 10 and overlap 3 returned the four windows of a
\* text of 25 characters that was given with white space around it.
C23_Witness ==
    /\ chunk_call.pc = "done"
    /\ chunk_call.chunk_chars = 10
    /\ chunk_call.overlap_chars = 3
    /\ Len(chunk_call.text) = 25
    /\ Len(chunk_call.raw) > 25
    /\ Len(chunk_call.out) = 4
    /\ Len(chunk_call.out[4]) = 4

\* C24 (as specified; the code violates it): in every chunk_text call, whatever
\* its overlap, each window starts strictly after the previous one; a call
\* whose overlap is not below its window size is rejected and cuts no window.
C24_ChunkTextTerminates ==
    LET c == chunk_call
    IN c.pc # "idle" =>
        \A k \in 1 .. (Len(c.starts) - 1) : c.starts[k + 1] > c.starts[k]

\* C25: rollback validation.  A rollback request for a path without a
\* document is answered 404 and one for a version below 1 or above max_version
\* is answered 400, both without changing a document row; any other request
\* is accepted and sets the active version to the version requested.
C25_RollbackValidation ==
    [][\A p \in Paths : \A v \in 0 .. (MaxVersion + 1) :
        documents_rollback(p, v) =>
            LET d == get_document_by_path(documents, p)
            IN IF d = 0
               THEN resp'.status = 404 /\ documents' = documents
               ELSE IF v < 1 \/ v > documents[d].max_version
               THEN resp'.status = 400 /\ documents' = documents
               ELSE /\ resp'.status = 200
                    /\ resp'.active_version = v
                    /\ documents'[d].version = v]_vars

\* A rollback request was rejected for its version, on a document that an
\* earlier request had rolled back.
C25_Witness ==
    /\ resp.op = "rollback"
    /\ resp.status = 400
    /\ \E d \in DOMAIN documents :
        /\ documents[d].version < documents[d].max_version
        /\ resp.max_version = documents[d].max_version

\* C26: unknown documents.  On a path that has no document, set_active_version
\* changes and creates no row and returns no document, and diff_doc_versions
\* returns the "Document not found" error and no report.
C26_UnknownDocument ==
    \A p \in Paths :
        get_document_by_path(documents, p) = 0 =>
            /\ \A v \in 0 .. (MaxVersion + 1) :
                /\ set_active_version(documents, p, v) = documents
                /\ get_document_by_path(set_active_version(documents, p, v), p) = 0
            /\ \A a, b \in 1 .. MaxVersion :
                LET r == diff_doc_versions(documents, chunks, p, a, b)
                IN /\ DOMAIN r = {"error"}
                   /\ r.error = "Document not found"

\* A request for a path without a document was answered 404 while the store
\* holds a document of several versions.
C26_Witness ==
    /\ resp.op \in {"rollback", "diff"}
    /\ resp.status = 404
    /\ \E p \in Paths : get_document_by_path(documents, p) = 0
    /\ \E d \in DOMAIN documents : documents[d].max_version >= 2

\* The fingerprint stored for every document is that of a text whose chunks are
\* the ones ingested as its max_version.
FingerprintOfMaxVersion ==
    \A d \in DOMAIN documents :
        LET doc == documents[d]
        IN /\ Len(splits[doc.path]) = doc.max_version
           /\ \E c \in ContentsOf(doc.path) :
                /\ doc.doc_hash = sha256_text(c)
                /\ chunk_text(c, CHUNK_CHARS, CHUNK_OVERLAP_CHARS)
                        = splits[doc.path][doc.max_version]

\* The paths whose file has the fingerprint stored for its document.
UnchangedPaths ==
    {p \in Paths :
        /\ files[p] # NoFile
        /\ get_document_by_path(documents, p) # 0
        /\ documents[get_document_by_path(documents, p)].doc_hash
                = sha256_text(files[p])}

\* C28: rollback frame.  An accepted rollback changes the active version of
\* its document and nothing else: fingerprint, max_version, the other
\* documents, the chunk rows, the vectors and the vector index stay as they
\* were.  The stored fingerprint is always that of the text that produced
\* max_version, and an ingest pass counts every document whose file still has
\* that fingerprint as unchanged and leaves its row, with the rolled-back
\* active version, as it was.
C28_RollbackFrame ==
    /\ []FingerprintOfMaxVersion
    /\ [][/\ (resp'.op = "rollback" /\ resp'.status = 200) =>
            /\ chunks' = chunks
            /\ vectors' = vectors
            /\ faiss' = faiss
            /\ row_to_chunk' = row_to_chunk
            /\ index_files' = index_files
            /\ DOMAIN documents' = DOMAIN documents
            /\ \A d \in DOMAIN documents :
                /\ documents'[d] =
                        [documents[d] EXCEPT !.version = documents'[d].version]
                /\ documents[d].path # resp'.path => documents'[d] = documents[d]
       /\ resp'.op = "ingest" =>
            /\ resp'.summary.docs_unchanged = Cardinality(UnchangedPaths)
            /\ \A p \in UnchangedPaths :
                LET d == get_document_by_path(documents, p)
                IN documents'[d] = documents[d]]_vars

\* A pass found the file of a document unchanged whose active version had been
\* rolled back from 3 to 1.
C28_Witness ==
    /\ resp.op = "ingest"
    /\ resp.summary.docs_unchanged >= 1
    /\ resp.summary.docs_changed = 0
    /\ \E d \in DOMAIN documents :
        documents[d].version = 1 /\ documents[d].max_version = 3

\* C29: ingestion never tombstones.  No entry of the mapping is the sentinel
\* and an ingest pass only appends to the mapping; every chunk that was
\* embedded, of whatever version, keeps its row, its vector and its mapping
\* entry, and a search over the whole index returns it.
C29_IngestNeverTombstones ==
    /\ [](/\ TOMBSTONE \notin Range(row_to_chunk)
          /\ \A c \in DOMAIN vectors :
                /\ vectors[c] + 1 \in DOMAIN row_to_chunk
                /\ row_to_chunk[vectors[c] + 1] = c
                /\ faiss[vectors[c] + 1] = Vec(chunks[c].text)
          /\ \A q \in Queries :
                \A hits \in search(faiss, row_to_chunk, q, Len(faiss)) :
                    {hits[h].chunk_id : h \in DOMAIN hits} = DOMAIN vectors)
    /\ [][resp'.op = "ingest" =>
            /\ Len(row_to_chunk') >= Len(row_to_chunk)
            /\ SubSeq(row_to_chunk', 1, Len(row_to_chunk)) = row_to_chunk]_vars

\* After a rollback, chat answered from a chunk of the rolled-back version
\* whose ordinal has an embedded chunk of a later version.
C29_Witness ==
    /\ resp.op = "chat"
    /\ \E k \in DOMAIN resp.contexts :
        LET c == chunks[resp.contexts[k].chunk_id]
        IN /\ c.version = documents[c.doc_id].version
           /\ \E n \in DOMAIN vectors :
                /\ chunks[n].doc_id = c.doc_id
                /\ chunks[n].chunk_index = c.chunk_index
                /\ chunks[n].version > c.version

\* C30: row layout.  Between calls that come one after the other, the mapping
\* has as many entries as the backend has rows; row i holds the i-th vector
\* ever added and maps to its chunk id or to the sentinel; every add_vectors
\* call returned the contiguous rows from the row count it found; and once the
\* index holds a row, both files on disk are what is in memory.
C30_RowLayout ==
    (\A c \in Callers : add_calls[c].pc = "idle") =>
        /\ Len(row_to_chunk) = Len(faiss)
        /\ Len(faiss) = index_log.issued
        /\ \A k \in DOMAIN faiss :
            /\ faiss[k] = VecOf(k)
            /\ row_to_chunk[k] \in {k, TOMBSTONE}
        /\ \A r \in index_log.returned :
            \A i \in DOMAIN r.rows :
                /\ r.rows[i] = r.rows[1] + i - 1
                /\ r.rows[1] = r.chunk_ids[1] - 1
                /\ faiss[r.rows[i] + 1] = r.vecs[i]
        /\ Len(faiss) > 0 =>
            index_files = [index_exists |-> TRUE, index |-> faiss,
                           map_exists |-> TRUE, map |-> row_to_chunk]

\* Two add_vectors calls and a delete have returned: three or more rows, one
\* of them marked deleted, the last call having returned two rows.
C30_Witness ==
    /\ \A c \in Callers : add_calls[c].pc = "idle"
    /\ Cardinality(index_log.returned) = 2
    /\ Len(faiss) >= 3
    /\ TOMBSTONE \in Range(row_to_chunk)
    /\ resp.op = "delete"

\* The directories and the file name of an absolute path.
PathSegments(path) == SelectSeq(split_sep(path), LAMBDA comp : comp # <<>>)

\* The file of an absolute path lies strictly below the corpus root: the path
\* goes through the directories of the root, then at least one more name, and
\* no "." or ".." is left in it to lead elsewhere.
StrictlyBelowRoot(path) ==
    LET segs == PathSegments(path)
        root == PathSegments(docs_root)
    IN /\ path # <<>>
       /\ path[1] = "/"
       /\ Len(segs) > Len(root)
       /\ SubSeq(segs, 1, Len(root)) = root
       /\ \A k \in DOMAIN segs : segs[k] \notin {<<".">>, <<".", ".">>}

\* C27: path escape rejection.  A raw content read or write that is rejected
\* (400) has opened no file, and every file a read or write has opened lies
\* strictly below the corpus root, whatever ".." segments, separators and
\* backslashes the request's path had.
C27_PathEscapeRejected ==
    resp.op \in {"content", "update_content"} =>
        /\ resp.status = 400 => (resp.path = <<>> /\ ~resp.opened)
        /\ resp.status = 200 <=> resp.opened
        /\ resp.opened => StrictlyBelowRoot(resp.path)

\* A write was rejected for its path.
C27_Witness ==
    /\ resp.op = "update_content"
    /\ resp.status = 400
    /\ ~resp.opened

\* The pairs (chunk_id, vector_row) ingest_docs hands to set_vector_row for
\* the add_vectors calls that have returned.
StoredPairs ==
    UNION {{<<r.chunk_ids[i], r.rows[i]>> : i \in DOMAIN r.rows} :
            r \in index_log.returned}

\* C31 (as specified; the code violates it): store/index agreement.  Once the
\* add_vectors calls of the passes have returned and their rows are stored, no
\* chunk id is at two live rows of the mapping, no two chunks are stored with
\* the same row, and the mapping at the row stored for a chunk holds that
\* chunk id (the sentinel once the row was deleted).
C31_StoreIndexAgreement ==
    (\A c \in Callers : add_calls[c].pc = "idle") =>
        /\ \A k, l \in DOMAIN row_to_chunk :
            (row_to_chunk[k] = row_to_chunk[l] /\ row_to_chunk[k] # TOMBSTONE)
                => k = l
        /\ \A p, q \in StoredPairs : p[2] = q[2] => p[1] = q[1]
        /\ \A p \in StoredPairs :
            /\ p[2] + 1 \in DOMAIN row_to_chunk
            /\ row_to_chunk[p[2] + 1] \in {p[1], TOMBSTONE}

\* The embedded chunks of their documents' active versions, and the score of
\* the last chat's query against a chunk.
ActiveChunks ==
    {c \in DOMAIN vectors :
        chunks[c].version = documents[chunks[c].doc_id].version}

QueryScore(c) == Score(resp.query, chunks[c].text)

\* C32 (as specified; the code violates it): retrieval completeness under stale
\* vectors.  When the best score among all embedded active-version chunks is
\* at least tau_min, every such chunk that scores at least
\* max(tau_min, best - window) and has fewer than N_max others of them scoring
\* as much as it does is among the contexts chat returns, whatever vectors of
\* other versions the index holds.
C32_RetrievalCompleteness ==
    (resp.op = "chat" /\ ActiveChunks # {}) =>
        LET best == CHOOSE s \in {QueryScore(c) : c \in ActiveChunks} :
                        \A c \in ActiveChunks : QueryScore(c) <= s
            threshold == Max(MIN_RELEVANCE_SCORE, best - SCORE_WINDOW)
            ids == {resp.contexts[k].chunk_id : k \in DOMAIN resp.contexts}
        IN best >= MIN_RELEVANCE_SCORE =>
            \A c \in ActiveChunks :
                (/\ QueryScore(c) >= threshold
                 /\ Cardinality({d \in ActiveChunks \ {c} :
                                    QueryScore(d) >= QueryScore(c)}) < MAX_CONTEXTS)
                => c \in ids

=============================================================================
